---- MODULE Spec2Model ----
(***************************************************************************)
(* Model of the rootfs builder (src/rootfs/sub.py): the feature-toggle     *)
(* patch step of configure_and_install_busybox, the two disk image         *)
(* packagers with their mount / unmount / cleanup life cycle, the          *)
(* directory scaffold builder create_dirs, the device nodes and the        *)
(* permission passes over the rootfs tree (create_device_nodes,            *)
(* set_rootfs_permissions), the library resolver find_dynamic_libraries,   *)
(* the initramfs builder create_initramfs with the init script it writes,  *)
(* and main, which calls the stages one after the other.  The packagers    *)
(* and main of src/rootfs/test.py are modelled next to those of sub.py.    *)
(*                                                                         *)
(* Text is modelled as a sequence of tokens; every white-space character   *)
(* is a token of its own, so that str.startswith, str.endswith and         *)
(* str.strip are prefix, suffix and trimming of token sequences.           *)
(***************************************************************************)
EXTENDS Integers, Sequences, FiniteSets, TLC

VARIABLES
    \* ---- feature-toggle patch step -------------------------------------
    configFile,         \* content of busybox_src_dir/.config: a sequence of lines
    disabled_features,  \* the list config.get("disabled_features", [])
    prevConfig,         \* content of .config before the latest patch step
    patchCount,         \* number of patch steps applied so far
    \* ---- disk image packagers ------------------------------------------
    imgKind,            \* "ext4": create_rootfs_ext4_image, "vfat": create_bootfs_vfat_image
    euidRoot,           \* os.geteuid() == 0
    srcIsDir,           \* rootfs_base_dir.is_dir() resp. source_boot_dir.is_dir()
    srcFiles,           \* the files of the source tree that is copied into the image
    imageFiles,         \* the files in the image: name |-> "source" or "generated"
    pc,                 \* position of the packager
    temp_mount_point,   \* "None" or "dir": the local variable temp_mount_point
    tmpDirExists,       \* the temporary mount point directory exists on the host
    mounted,            \* the image is mounted on the temporary mount point
    imageState,         \* "absent", "allocated" or "formatted"
    copied,             \* the source tree was copied into the mounted image
    bootFiles,          \* generated text files written into the mounted image
    pendingExc,         \* exception propagating out of the try block
    failedStep,         \* the step of the try block that failed, or "none"
    fallocateOutcome,   \* how the fallocate invocation ended
    ddRan,              \* the dd fallback was invoked
    umountOutcome,      \* how the umount invocation of the cleanup ended
    rmtreeAttempted,    \* shutil.rmtree(temp_mount_point) was called
    warnings,           \* cleanup steps that printed a WARNUNG
    cmdLog,             \* the external commands invoked so far, with how each ended
    \* ---- directory scaffold builder ------------------------------------
    fs,                 \* host file system: path |-> [kind, mode] for every existing path
    umask,              \* file mode creation mask of the process
    prevFs,             \* fs before the latest run of create_dirs
    dirsStatus,         \* "none", "ok" (returned) or "error" (an exception escaped)
    dirsRuns,           \* number of runs of create_dirs so far
    \* ---- device nodes and permissions of the rootfs tree ---------------
    tree,               \* the tree below rootfs_dir: path |-> [kind, mode, content]
    treeBefore,         \* tree when create_device_nodes was entered
    permFail,           \* the paths on which os.chmod or read_bytes raises
    mknodFail,          \* the device names for which os.mknod raises OSError
    mknodAttempted,     \* the device names os.mknod was called for
    devWarned,          \* the device names create_device_nodes printed a WARNUNG for
    permWarned,         \* the paths set_rootfs_permissions printed a WARNUNG for
    permPc,             \* position in main between create_device_nodes and the image steps
    \* ---- find_dynamic_libraries ----------------------------------------
    cross_prefix,       \* config.get("cross_compile_prefix"), a token sequence
    cross_compiler_root,\* "None" or "sysroot": config.get("cross_compiler_root")
    sysFiles,           \* the library files below cross_compiler_root
    readelfOutcome,     \* how the readelf invocation ends
    readelfStdout,      \* the lines readelf -d prints when it succeeds
    needed_libs,        \* the set needed_libs
    search_paths,       \* the list search_paths
    libResult,          \* the list the resolver returned
    libWarned,          \* the sonames reported as not found, in order
    libPc,              \* position of the resolver
    \* ---- create_initramfs ----------------------------------------------
    ramEuidRoot,        \* os.geteuid() == 0
    busyboxExists,      \* rootfs_base_dir/bin/busybox exists
    ramPc,              \* position of create_initramfs
    temp_initramfs_staging_dir, \* "None" or "dir": the local variable of that name
    stagingExists,      \* the staging directory exists on the host
    staged,             \* what was put into the staging directory
    stagedLibs,         \* what the library loop put below the staging directory: path -> entry
    archive,            \* "none", "cpio" (written), "gz" (compressed) or "moved"
    ramExc,             \* exception propagating out of the try block
    ramLog,             \* commands and file operations performed, with how each ended
    ramRmtreeAttempted, \* shutil.rmtree(temp_initramfs_staging_dir) was called
    ramWarned,          \* the finally clause printed its WARNUNG
    \* ---- the init script of the initramfs, run by the kernel -----------
    shPc,               \* index of the next command of the script
    shStatus,           \* $?: the exit status of the last command
    shTrace,            \* the programs started so far, each with its exit status
    shState,            \* "running", "replaced" (by exec), "exited" or "idle"
    \* ---- the file system the library loop of create_initramfs reads ----
    crossRootParts,     \* the names of the absolute path cross_compiler_root
    libLinks,           \* the returned library paths that are symlinks: path -> link target
    \* ---- symbolic links of the root file system tree -------------------
    symlinks,           \* path of a symlink in tree -> the path it points to
    \* ---- main ----------------------------------------------------------
    mainKind,           \* "sub": main of sub.py, "test": main of test.py
    mainStage,          \* index of the latest call of main in the list of its stages
    mainPhase,          \* "between" two calls or "in" a call
    mainStatus,         \* "running", "exit0" or "exit1": the status of the process
    mainLog,            \* <<stage, "start">> and <<stage, outcome>> in the order of the run
    hostMounts,         \* the packagers that ended with their image still mounted
    madeMounts          \* the packagers that ended after a successful mount

patchVars == <<configFile, disabled_features, prevConfig, patchCount>>

imgInputs == <<imgKind, euidRoot, srcIsDir, srcFiles>>

imgVars == <<imgInputs, imageFiles, pc, temp_mount_point, tmpDirExists, mounted, imageState, copied,
             bootFiles, pendingExc, failedStep, fallocateOutcome, ddRan, umountOutcome,
             rmtreeAttempted, warnings, cmdLog>>

dirsVars == <<fs, umask, prevFs, dirsStatus, dirsRuns>>

permVars == <<tree, treeBefore, permFail, mknodFail, mknodAttempted, devWarned, permWarned,
              permPc>>

\* the variables of the steps of main after create_dirs
libsVars == <<cross_prefix, cross_compiler_root, sysFiles, readelfOutcome, readelfStdout,
              needed_libs, search_paths, libResult, libWarned, libPc>>

ramVars == <<ramEuidRoot, busyboxExists, ramPc, temp_initramfs_staging_dir, stagingExists, staged,
             stagedLibs, archive, ramExc, ramLog, ramRmtreeAttempted, ramWarned>>

shVars == <<shPc, shStatus, shTrace, shState>>

\* the variables of the components described further down
linkVars == <<crossRootParts, libLinks>>

mainVars == <<mainKind, mainStage, mainPhase, mainStatus, mainLog, hostMounts, madeMounts>>

lateVars == <<shVars, linkVars, symlinks, mainVars>>

stageVars == <<permVars, libsVars, ramVars, lateVars>>

vars == <<patchVars, imgVars, dirsVars, stageVars>>

-----------------------------------------------------------------------------
(* Bounds of the model *)
MaxLines == 2
MaxFeatures == 2
MaxPatch == 2
MaxDirsRuns == 2

-----------------------------------------------------------------------------
(* ---------------- text helpers (Python str methods) -------------------- *)

Whitespace == {" ", "\n"}

StartsWith(s, p) == Len(p) <= Len(s) /\ SubSeq(s, 1, Len(p)) = p

EndsWith(s, p) == Len(p) <= Len(s) /\ SubSeq(s, Len(s) - Len(p) + 1, Len(s)) = p

RECURSIVE LStrip(_)
LStrip(s) == IF s # <<>> /\ Head(s) \in Whitespace THEN LStrip(Tail(s)) ELSE s

RECURSIVE RStrip(_)
RStrip(s) ==
    IF s # <<>> /\ s[Len(s)] \in Whitespace THEN RStrip(SubSeq(s, 1, Len(s) - 1)) ELSE s

Strip(s) == RStrip(LStrip(s))

UpperChar(c) == IF c = "a" THEN "A" ELSE IF c = "b" THEN "B" ELSE c

Upper(s) == [i \in 1..Len(s) |-> UpperChar(s[i])]

-----------------------------------------------------------------------------
(* ---------------- feature-toggle patch step ---------------------------- *)

\* feature_pattern = f"CONFIG_{feature.upper()}="
feature_pattern(feature) == <<"CONFIG_">> \o Upper(feature) \o <<"=">>

\* f"# {feature_pattern} is not set"
NotSetText(feature) == <<"#", " ">> \o feature_pattern(feature) \o <<" ", "is not set">>

\* line.strip().endswith(('=y', '=m'))
EndsWithOnlyY(line) == EndsWith(Strip(line), <<"=", "y">>)

EndsEnabled(line) ==
    EndsWith(Strip(line), <<"=", "y">>) \/ EndsWith(Strip(line), <<"=", "m">>)

\* What one input line contributes to modified_lines: the inner loop over
\* disabled_features followed by "if not modified: append(line)".
RECURSIVE PatchLine(_, _)
PatchLine(line, feats) ==
    IF feats = <<>>
    THEN <<line>>
    ELSE IF StartsWith(line, feature_pattern(Head(feats)))
         THEN IF EndsEnabled(line)
              THEN << NotSetText(Head(feats)) \o <<"\n">> >>
              ELSE PatchLine(line, Tail(feats))
         ELSE IF Strip(line) = NotSetText(Head(feats))
              THEN <<>>
              ELSE PatchLine(line, Tail(feats))

\* modified_lines for the whole file
RECURSIVE PatchLines(_, _)
PatchLines(lines, feats) ==
    IF lines = <<>> THEN <<>>
    ELSE PatchLine(Head(lines), feats) \o PatchLines(Tail(lines), feats)

\* ---- inputs ------------------------------------------------------------
FeatureNames == { <<"a">>, <<"B">>, <<"a", "b">> }

AssignLine(name, value) == <<"CONFIG_">> \o name \o <<"=", value, "\n">>

\* the disabled form of the config file format: "# CONFIG_<NAME> is not set"
DisabledForm(name) == <<"#", " ", "CONFIG_">> \o name \o <<" ", "is not set">>

InputLines ==
    { AssignLine(<<"A">>, "y"), AssignLine(<<"A">>, "m"), AssignLine(<<"A">>, "n"),
      AssignLine(<<"B">>, "y"), AssignLine(<<"A", "B">>, "m"),
      <<"CONFIG_", "A", "=", "y">>,
      <<"CONFIG_", "A", "=", "y", " ", "\n">>,
      DisabledForm(<<"A">>) \o <<"\n">>,
      NotSetText(<<"a">>) \o <<"\n">>,
      <<"#", " ", "is not set", "\n">> }

RECURSIVE SeqsUpTo(_, _)
SeqsUpTo(S, n) ==
    IF n = 0 THEN { <<>> }
    ELSE SeqsUpTo(S, n - 1) \cup
         { Append(s, x) : s \in { t \in SeqsUpTo(S, n - 1) : Len(t) = n - 1 }, x \in S }

PatchInit ==
    /\ configFile \in SeqsUpTo(InputLines, MaxLines)
    /\ disabled_features \in SeqsUpTo(FeatureNames, MaxFeatures)
    /\ prevConfig = configFile
    /\ patchCount = 0

\* the block "if disabled_features: ... f.writelines(modified_lines)"
Patch ==
    /\ patchCount < MaxPatch
    /\ prevConfig' = configFile
    /\ configFile' = IF disabled_features # <<>>
                     THEN PatchLines(configFile, disabled_features)
                     ELSE configFile
    /\ patchCount' = patchCount + 1
    /\ UNCHANGED <<disabled_features, imgVars, dirsVars, stageVars>>

\* the patch step is not under study: an empty file, never patched
PatchIdle ==
    /\ configFile = <<>>
    /\ disabled_features = <<>>
    /\ prevConfig = <<>>
    /\ patchCount = 0

-----------------------------------------------------------------------------
(* ---------------- run_command and Python exceptions -------------------- *)

\* how an external command can end: exit status 0, a non-zero exit status,
\* or the executable is not found
CmdOutcomes == {"ok", "nonzero", "notfound"}

\* how a file operation of the Python library can end
FileOutcomes == {"ok", "oserror"}

\* subprocess.run(..., check=True): the exception it raises, "none" if none
SubprocessRun(outcome) ==
    CASE outcome = "ok" -> "none"
      [] outcome = "nonzero" -> "CalledProcessError"
      [] outcome = "notfound" -> "FileNotFoundError"

\* exception classes derived from Exception; SystemExit is not one of them
PyExceptions == {"CalledProcessError", "FileNotFoundError", "OSError"}

RunCommandReraise(check_root, isRoot, outcome) ==
    IF check_root /\ ~isRoot THEN "SystemExit"
    ELSE IF SubprocessRun(outcome) = "FileNotFoundError" THEN "SystemExit"
    ELSE SubprocessRun(outcome)

\* run_command: what propagates to the caller ("none": it returns normally).
\* Both handlers end in sys.exit(1), which raises SystemExit.
RunCommand(check_root, isRoot, outcome) ==
    IF check_root /\ ~isRoot THEN "SystemExit"
    ELSE IF SubprocessRun(outcome) = "FileNotFoundError" THEN "SystemExit"
    ELSE IF SubprocessRun(outcome) = "CalledProcessError" THEN "SystemExit"
    ELSE SubprocessRun(outcome)

\* "except Exception as e: print(...); sys.exit(1)" around the try block: an
\* Exception is replaced by SystemExit, anything else propagates unchanged
TryExcept(exc) == IF exc \in PyExceptions THEN "SystemExit" ELSE exc

AfterTryNoFinally(exc) == IF exc = "none" THEN "umount" ELSE "exited"

\* the finally clause runs however the try block was left
AfterTry(exc) == "umount"

\* mutant of IsMountGuard: the unmount is never attempted
IsMountGuardNever(tmp, isMounted) == FALSE

\* temp_mount_point and temp_mount_point.is_mount()
IsMountGuard(tmp, isMounted) == tmp # "None" /\ isMounted

\* temp_mount_point and temp_mount_point.exists()
ExistsGuard(tmp, exists) == tmp # "None" /\ exists

\* mutant of FailsRootCheck: the check in front of the try block is missing
FailsRootCheckNever(isRoot) == FALSE

\* if os.geteuid() != 0: print(...); sys.exit(1)
FailsRootCheck(isRoot) == ~isRoot

\* the packager builds the root file system image (create_rootfs_ext4_image of
\* sub.py or of test.py), not the boot image
IsRootfsPackager(kind) == kind \in {"ext4", "ext4_test"}

\* the boot image packager of sub.py writes cmdline.txt and config.txt after
\* the copy; its copy in test.py has no such step
WritesBootFiles(kind) == kind = "vfat"

\* the except clause of the packager: sub.py, and create_bootfs_vfat_image of
\* test.py, print and call sys.exit(1); create_rootfs_ext4_image of test.py
\* prints and passes, so that the exception is gone
ExceptClause(kind, exc) ==
    IF kind = "ext4_test"
    THEN (IF exc \in PyExceptions THEN "none" ELSE exc)
    ELSE TryExcept(exc)

\* 'e' in locals() at the end of the finally clause of test.py: the name
\* bound by "except Exception as e" is unbound again when the handler is left
EInLocals(caughtInTry) == FALSE

\* how the packager ends when no exception is pending after the cleanup
AfterCleanup(kind, caughtInTry) ==
    IF kind = "ext4_test" /\ EInLocals(caughtInTry) THEN "exited" ELSE "returned"

\* mutant of WriteText: a file that exists is left as it is
WriteTextIfAbsent(files, name) == files @@ (name :> "generated")

\* pathlib.Path.write_text on a file of the mounted image: creates the file
\* or replaces its content
WriteText(files, name) == (name :> "generated") @@ files

-----------------------------------------------------------------------------
(* ---------------- disk image packagers --------------------------------- *)

ImgFresh ==
    /\ temp_mount_point = "None"
    /\ tmpDirExists = FALSE
    /\ mounted = FALSE
    /\ imageState = "absent"
    /\ copied = FALSE
    /\ bootFiles = {}
    /\ pendingExc = "none"
    /\ failedStep = "none"
    /\ fallocateOutcome = "none"
    /\ ddRan = FALSE
    /\ umountOutcome = "none"
    /\ rmtreeAttempted = FALSE
    /\ warnings = {}
    /\ cmdLog = <<>>
    /\ imageFiles = << >>

\* the files a source tree may hold
SourceFiles == {"cmdline.txt", "kernel8.img"}

\* the packagers of sub.py
ImgInit ==
    /\ imgKind \in {"ext4", "vfat"}
    /\ euidRoot \in BOOLEAN
    /\ srcIsDir \in BOOLEAN
    /\ srcFiles \in SUBSET SourceFiles
    /\ pc = "start"
    /\ ImgFresh

\* the packagers of sub.py and the copies of them in test.py
ImgInitAll ==
    /\ imgKind \in {"ext4", "vfat", "ext4_test", "vfat_test"}
    /\ euidRoot \in BOOLEAN
    /\ srcIsDir \in BOOLEAN
    /\ srcFiles \in SUBSET SourceFiles
    /\ pc = "start"
    /\ ImgFresh

\* no packager is run
ImgIdle ==
    /\ imgKind = "ext4"
    /\ euidRoot = TRUE
    /\ srcIsDir = TRUE
    /\ srcFiles = {}
    /\ pc = "idle"
    /\ ImgFresh

\* an exception exc leaves the try block at the given step
Raise(exc, step) ==
    /\ pendingExc' = ExceptClause(imgKind, exc)
    /\ failedStep' = step
    /\ pc' = AfterTry(ExceptClause(imgKind, exc))

\* the checks in front of the try block
ImgStart ==
    /\ pc = "start"
    /\ IF FailsRootCheck(euidRoot)
       THEN pc' = "exited" /\ failedStep' = "euid"
       ELSE IF IsRootfsPackager(imgKind) /\ ~srcIsDir
            THEN pc' = "exited" /\ failedStep' = "is_dir"
            ELSE /\ pc' = (IF IsRootfsPackager(imgKind) THEN "mkdtemp" ELSE "git")
                 /\ UNCHANGED failedStep
    /\ UNCHANGED <<stageVars, dirsVars, cmdLog, patchVars, imgInputs, imageFiles, temp_mount_point, tmpDirExists, mounted,
                   imageState, copied, bootFiles, pendingExc, fallocateOutcome, ddRan,
                   umountOutcome, rmtreeAttempted, warnings>>

\* git pull / git clone of the firmware, then the check of its boot folder
GitFetch ==
    /\ pc = "git"
    /\ \E o \in CmdOutcomes :
          /\ cmdLog' = Append(cmdLog, <<"git", o>>)
          /\ IF RunCommand(FALSE, euidRoot, o) # "none"
             THEN Raise(RunCommand(FALSE, euidRoot, o), "git")
             ELSE IF ~srcIsDir
                  THEN Raise("SystemExit", "is_dir")
                  ELSE pc' = "mkdtemp" /\ UNCHANGED <<pendingExc, failedStep>>
    /\ UNCHANGED <<stageVars, dirsVars, patchVars, imgInputs, imageFiles, temp_mount_point, tmpDirExists, mounted,
                   imageState, copied, bootFiles, fallocateOutcome, ddRan,
                   umountOutcome, rmtreeAttempted, warnings>>

\* temp_mount_point = pathlib.Path(tempfile.mkdtemp(...))
Mkdtemp ==
    /\ pc = "mkdtemp"
    /\ \E o \in FileOutcomes :
          IF o = "ok"
          THEN /\ temp_mount_point' = "dir"
               /\ tmpDirExists' = TRUE
               /\ pc' = "alloc"
               /\ UNCHANGED <<pendingExc, failedStep>>
          ELSE /\ Raise("OSError", "mkdtemp")
               /\ UNCHANGED <<temp_mount_point, tmpDirExists>>
    /\ UNCHANGED <<stageVars, dirsVars, cmdLog, patchVars, imgInputs, imageFiles, mounted, imageState, copied, bootFiles,
                   fallocateOutcome, ddRan, umountOutcome, rmtreeAttempted, warnings>>

\* fallocate inside "try: ... except subprocess.CalledProcessError:" with the
\* dd invocation in the handler
Allocate ==
    /\ pc = "alloc"
    /\ \E fo \in CmdOutcomes, do \in CmdOutcomes :
          /\ fallocateOutcome' = fo
          /\ cmdLog' = IF RunCommand(TRUE, euidRoot, fo) = "CalledProcessError"
                        THEN cmdLog \o << <<"fallocate", fo>>, <<"dd", do>> >>
                        ELSE Append(cmdLog, <<"fallocate", fo>>)
          /\ IF RunCommand(TRUE, euidRoot, fo) = "none"
             THEN /\ imageState' = "allocated"
                  /\ pc' = "mkfs"
                  /\ UNCHANGED <<ddRan, pendingExc, failedStep>>
             ELSE IF RunCommand(TRUE, euidRoot, fo) = "CalledProcessError"
                  THEN /\ ddRan' = TRUE
                       /\ IF RunCommand(TRUE, euidRoot, do) = "none"
                          THEN /\ imageState' = "allocated"
                               /\ pc' = "mkfs"
                               /\ UNCHANGED <<pendingExc, failedStep>>
                          ELSE /\ Raise(RunCommand(TRUE, euidRoot, do), "dd")
                               /\ UNCHANGED imageState
                  ELSE /\ Raise(RunCommand(TRUE, euidRoot, fo), "fallocate")
                       /\ UNCHANGED <<imageState, ddRan>>
    /\ UNCHANGED <<stageVars, dirsVars, patchVars, imgInputs, imageFiles, temp_mount_point, tmpDirExists, mounted, copied,
                   bootFiles, umountOutcome, rmtreeAttempted, warnings>>

\* mkfs.ext4 -F / mkfs.vfat -F 32
Mkfs ==
    /\ pc = "mkfs"
    /\ \E o \in CmdOutcomes :
          /\ cmdLog' = Append(cmdLog, <<"mkfs", o>>)
          /\ IF RunCommand(TRUE, euidRoot, o) = "none"
             THEN /\ imageState' = "formatted"
                  /\ pc' = "mount"
                  /\ UNCHANGED <<pendingExc, failedStep>>
             ELSE /\ Raise(RunCommand(TRUE, euidRoot, o), "mkfs")
                  /\ UNCHANGED imageState
    /\ UNCHANGED <<stageVars, dirsVars, patchVars, imgInputs, imageFiles, temp_mount_point, tmpDirExists, mounted, copied,
                   bootFiles, fallocateOutcome, ddRan, umountOutcome, rmtreeAttempted,
                   warnings>>

\* mount <image> <temp_mount_point>
Mount ==
    /\ pc = "mount"
    /\ \E o \in CmdOutcomes :
          /\ cmdLog' = Append(cmdLog, <<"mount", o>>)
          /\ IF RunCommand(TRUE, euidRoot, o) = "none"
             THEN /\ mounted' = TRUE
                  /\ pc' = "rsync"
                  /\ UNCHANGED <<pendingExc, failedStep>>
             ELSE /\ Raise(RunCommand(TRUE, euidRoot, o), "mount")
                  /\ UNCHANGED mounted
    /\ UNCHANGED <<stageVars, dirsVars, patchVars, imgInputs, imageFiles, temp_mount_point, tmpDirExists, imageState,
                   copied, bootFiles, fallocateOutcome, ddRan, umountOutcome,
                   rmtreeAttempted, warnings>>

\* rsync -a <source>/ <temp_mount_point>/
Rsync ==
    /\ pc = "rsync"
    /\ \E o \in CmdOutcomes :
          /\ cmdLog' = Append(cmdLog, <<"rsync", o>>)
          /\ IF RunCommand(TRUE, euidRoot, o) = "none"
             THEN /\ copied' = TRUE
                  /\ imageFiles' = [f \in srcFiles |-> "source"]
                  /\ pc' = (IF WritesBootFiles(imgKind) THEN "cmdline" ELSE AfterTry("none"))
                  /\ UNCHANGED <<pendingExc, failedStep>>
             ELSE /\ Raise(RunCommand(TRUE, euidRoot, o), "rsync")
                  /\ UNCHANGED <<copied, imageFiles>>
    /\ UNCHANGED <<stageVars, dirsVars, patchVars, imgInputs, temp_mount_point, tmpDirExists, mounted,
                   imageState, bootFiles, fallocateOutcome, ddRan, umountOutcome,
                   rmtreeAttempted, warnings>>

\* (temp_mount_point / "cmdline.txt").write_text(...)
WriteCmdline ==
    /\ pc = "cmdline"
    /\ \E o \in FileOutcomes :
          IF o = "ok"
          THEN /\ bootFiles' = bootFiles \cup {"cmdline.txt"}
               /\ imageFiles' = WriteText(imageFiles, "cmdline.txt")
               /\ pc' = "configtxt"
               /\ UNCHANGED <<pendingExc, failedStep>>
          ELSE /\ Raise("OSError", "cmdline")
               /\ UNCHANGED <<bootFiles, imageFiles>>
    /\ UNCHANGED <<stageVars, dirsVars, cmdLog, patchVars, imgInputs, temp_mount_point, tmpDirExists, mounted,
                   imageState, copied, fallocateOutcome, ddRan, umountOutcome,
                   rmtreeAttempted, warnings>>

\* (temp_mount_point / "config.txt").write_text(...)
WriteConfigTxt ==
    /\ pc = "configtxt"
    /\ \E o \in FileOutcomes :
          IF o = "ok"
          THEN /\ bootFiles' = bootFiles \cup {"config.txt"}
               /\ imageFiles' = WriteText(imageFiles, "config.txt")
               /\ pc' = AfterTry("none")
               /\ UNCHANGED <<pendingExc, failedStep>>
          ELSE /\ Raise("OSError", "configtxt")
               /\ UNCHANGED <<bootFiles, imageFiles>>
    /\ UNCHANGED <<stageVars, dirsVars, cmdLog, patchVars, imgInputs, temp_mount_point, tmpDirExists, mounted,
                   imageState, copied, fallocateOutcome, ddRan, umountOutcome,
                   rmtreeAttempted, warnings>>

\* finally, first part: unmount if mounted.  An Exception raised by
\* run_command is printed as a warning; a SystemExit leaves the finally clause.
Umount ==
    /\ pc = "umount"
    /\ IF IsMountGuard(temp_mount_point, mounted)
       THEN \E o \in CmdOutcomes :
              /\ umountOutcome' = o
              /\ cmdLog' = Append(cmdLog, <<"umount", o>>)
              /\ IF RunCommand(TRUE, euidRoot, o) = "none"
                 THEN /\ mounted' = FALSE
                      /\ pc' = "rmtree"
                      /\ UNCHANGED <<pendingExc, warnings>>
                 ELSE IF RunCommand(TRUE, euidRoot, o) \in PyExceptions
                      THEN /\ warnings' = warnings \cup {"umount"}
                           /\ pc' = "rmtree"
                           /\ UNCHANGED <<pendingExc, mounted>>
                      ELSE /\ pendingExc' = RunCommand(TRUE, euidRoot, o)
                           /\ pc' = "exited"
                           /\ UNCHANGED <<mounted, warnings>>
       ELSE /\ pc' = "rmtree"
            /\ UNCHANGED <<umountOutcome, mounted, pendingExc, warnings, cmdLog>>
    /\ UNCHANGED <<stageVars, dirsVars, patchVars, imgInputs, imageFiles, temp_mount_point, tmpDirExists, imageState,
                   copied, bootFiles, failedStep, fallocateOutcome, ddRan,
                   rmtreeAttempted>>

\* finally, second part: remove the temporary mount point; then the pending
\* SystemExit ends the process, or the success message is printed.
\* A directory that is still a mount point cannot be removed (EBUSY).
Rmtree ==
    /\ pc = "rmtree"
    /\ IF ExistsGuard(temp_mount_point, tmpDirExists)
       THEN /\ rmtreeAttempted' = TRUE
            /\ \E o \in FileOutcomes :
                  IF o = "ok" /\ ~mounted
                  THEN tmpDirExists' = FALSE /\ UNCHANGED warnings
                  ELSE warnings' = warnings \cup {"rmtree"} /\ UNCHANGED tmpDirExists
       ELSE UNCHANGED <<rmtreeAttempted, tmpDirExists, warnings>>
    /\ pc' = (IF pendingExc = "none" THEN AfterCleanup(imgKind, failedStep # "none")
               ELSE "exited")
    /\ UNCHANGED <<stageVars, dirsVars, cmdLog, patchVars, imgInputs, imageFiles, temp_mount_point, mounted, imageState, copied,
                   bootFiles, pendingExc, failedStep, fallocateOutcome, ddRan,
                   umountOutcome>>
-----------------------------------------------------------------------------
(* ---------------- directory scaffold builder --------------------------- *)

\* A path is the sequence of its segments, relative to the working directory.
build_dir == <<"build">>

rootfs_dir == build_dir \o <<"rootfs">>

rootfs_dirs ==
    << <<"bin">>, <<"sbin">>, <<"etc">>, <<"proc">>, <<"sys">>, <<"dev">>, <<"lib">>,
       <<"lib64">>, <<"home">>,
       <<"usr">>, <<"usr", "bin">>, <<"usr", "sbin">>, <<"usr", "lib">>, <<"usr", "local">>,
       <<"var">>, <<"var", "log">>, <<"var", "run">>, <<"var", "tmp">>, <<"var", "lock">>,
       <<"mnt">>, <<"opt">>, <<"srv">>,
       <<"root">>,
       <<"home", "pi">> >>

\* the os.chmod calls at the end of create_dirs, in order: <<path, mode>>
\* (01777 = 1023, 0777 = 511)
dirOverrides ==
    << << <<"tmp">>, 1023 >>, << <<"var", "log">>, 511 >>,
       << <<"var", "run">>, 511 >>, << <<"var", "tmp">>, 1023 >> >>

Parent(path) == SubSeq(path, 1, Len(path) - 1)

Exists(f, path) == path = <<>> \/ path \in DOMAIN f

IsDir(f, path) == path = <<>> \/ (path \in DOMAIN f /\ f[path].kind = "dir")

\* a directory made by mkdir gets mode 0777 & ~umask
NewDir(mask) == [kind |-> "dir", mode |-> 511 - mask]

\* Every file system operation yields [fs |-> the new file system, err |-> it raised]

\* pathlib.Path.mkdir(exist_ok=True), parents=False
Mkdir(f, mask, path) ==
    IF Exists(f, path)
    THEN [fs |-> f, err |-> ~IsDir(f, path)]
    ELSE IF ~IsDir(f, Parent(path))
         THEN [fs |-> f, err |-> TRUE]
         ELSE [fs |-> f @@ (path :> NewDir(mask)), err |-> FALSE]

\* pathlib.Path.mkdir(parents=True, exist_ok=True)
RECURSIVE MkdirParents(_, _, _)
MkdirParents(f, mask, path) ==
    IF Exists(f, path)
    THEN [fs |-> f, err |-> ~IsDir(f, path)]
    ELSE IF MkdirParents(f, mask, Parent(path)).err
         THEN MkdirParents(f, mask, Parent(path))
         ELSE Mkdir(MkdirParents(f, mask, Parent(path)).fs, mask, path)

\* os.chmod(path, mode)
Chmod(f, path, mode) ==
    IF path \in DOMAIN f
    THEN [fs |-> [f EXCEPT ![path].mode = mode], err |-> FALSE]
    ELSE [fs |-> f, err |-> TRUE]

\* "for d in rootfs_dirs: (rootfs_dir / d).mkdir(exist_ok=True)"; the first
\* exception ends the loop
RECURSIVE MkdirAll(_, _, _)
MkdirAll(f, mask, ds) ==
    IF ds = <<>> THEN [fs |-> f, err |-> FALSE]
    ELSE IF Mkdir(f, mask, rootfs_dir \o Head(ds)).err
         THEN Mkdir(f, mask, rootfs_dir \o Head(ds))
         ELSE MkdirAll(Mkdir(f, mask, rootfs_dir \o Head(ds)).fs, mask, Tail(ds))

\* the os.chmod calls of create_dirs; the first exception ends the function
RECURSIVE ChmodAll(_, _)
ChmodAll(f, os) ==
    IF os = <<>> THEN [fs |-> f, err |-> FALSE]
    ELSE IF Chmod(f, rootfs_dir \o Head(os)[1], Head(os)[2]).err
         THEN Chmod(f, rootfs_dir \o Head(os)[1], Head(os)[2])
         ELSE ChmodAll(Chmod(f, rootfs_dir \o Head(os)[1], Head(os)[2]).fs, Tail(os))

\* create_dirs as a whole
CreateDirsResult(f, mask) ==
    LET r1 == MkdirParents(f, mask, build_dir)
        r2 == IF r1.err THEN r1 ELSE MkdirParents(r1.fs, mask, rootfs_dir)
        r3 == IF r2.err THEN r2 ELSE MkdirAll(r2.fs, mask, rootfs_dirs)
    IN  IF r3.err THEN r3 ELSE ChmodAll(r3.fs, dirOverrides)

\* ---- inputs ------------------------------------------------------------
\* what may exist before the first run: directories of the scaffold, a
\* directory and a file that create_dirs knows nothing about
InitialDirs ==
    { build_dir, rootfs_dir, rootfs_dir \o <<"tmp">>, rootfs_dir \o <<"var">>,
      rootfs_dir \o <<"var", "log">>, rootfs_dir \o <<"extra">> }

InitialFiles == { rootfs_dir \o <<"README">> }

\* 0755, 0700
InitialDirModes == {493, 448}

\* 0644, 0600
InitialFileModes == {420, 384}

\* 022, 077
Umasks == {18, 63}

ParentClosed(S) == \A q \in S : Parent(q) = <<>> \/ Parent(q) \in S

DirsInit ==
    /\ umask \in Umasks
    /\ \E S \in { T \in SUBSET (InitialDirs \cup InitialFiles) : ParentClosed(T) } :
          fs \in { f \in [ S -> [kind : {"dir", "file"},
                                 mode : InitialDirModes \cup InitialFileModes] ] :
                     \A q \in S :
                        /\ f[q].kind = (IF q \in InitialFiles THEN "file" ELSE "dir")
                        /\ f[q].mode \in (IF q \in InitialFiles THEN InitialFileModes
                                          ELSE IF q \in {build_dir, rootfs_dir}
                                               THEN {493}
                                               ELSE InitialDirModes) }
    /\ prevFs = fs
    /\ dirsStatus = "none"
    /\ dirsRuns = 0

\* create_dirs is not under study
DirsIdle ==
    /\ umask = 18
    /\ fs = << >>
    /\ prevFs = << >>
    /\ dirsStatus = "none"
    /\ dirsRuns = 0

\* one run of create_dirs, from its first statement to its return or to the
\* exception that escapes it
CreateDirs ==
    /\ dirsRuns < MaxDirsRuns
    /\ prevFs' = fs
    /\ fs' = CreateDirsResult(fs, umask).fs
    /\ dirsStatus' = (IF CreateDirsResult(fs, umask).err THEN "error" ELSE "ok")
    /\ dirsRuns' = dirsRuns + 1
    /\ UNCHANGED <<umask, patchVars, imgVars, stageVars>>

-----------------------------------------------------------------------------
(* ---------------- rootfs tree: create_device_nodes ---------------------- *)
(* ---------------- and set_rootfs_permissions ---------------------------- *)

\* A path below rootfs_base_dir is the sequence of its components; << >> is
\* rootfs_base_dir itself.  tree maps every existing path to
\* [kind, mode, content]; kind is "dir", "file" or "chr", content is what
\* matters of the bytes of a regular file.

\* pathlib.Path.name
Name(path) == IF path = << >> THEN "rootfs" ELSE path[Len(path)]

\* file_path.parent.name
ParentName(path) == Name(Parent(path))

\* file_path.parent.parent.name; the parent of rootfs_base_dir is build_dir
GrandParentName(path) == IF Len(path) >= 2 THEN Name(Parent(Parent(path))) ELSE "build"

\* content classes of a regular file
Contents == {"sh_shebang", "other_shebang", "mention", "plain"}

\* the first bytes of the file are "#!"
StartsWithShebang(content) == content \in {"sh_shebang", "other_shebang"}

\* b"#!/bin/sh" in file_path.read_bytes(): a file that starts with #!/bin/sh,
\* or one that has these bytes further down
ContainsBinSh(content) == content \in {"sh_shebang", "mention"}

\* the file names of the model that end with ".sh"
NameEndsWithSh(name) == name \in {"run.sh"}

DirEntry(m) == [kind |-> "dir", mode |-> m, content |-> "none"]

FileEntry(m, c) == [kind |-> "file", mode |-> m, content |-> c]

\* a symbolic link; where it points to is in symlinks
LinkEntry == [kind |-> "symlink", mode |-> 511, content |-> "none"]

\* the path os.chmod, is_file and read_bytes act on: they follow a symlink
Resolve(path) == IF path \in DOMAIN symlinks THEN symlinks[path] ELSE path

\* the device table of create_device_nodes: name, major, minor, type
device_nodes ==
    << <<"console", 5, 1, "c">>, <<"null", 1, 3, "c">>, <<"zero", 1, 5, "c">>,
       <<"random", 1, 8, "c">>, <<"urandom", 1, 9, "c">>, <<"tty", 5, 0, "c">>,
       <<"tty0", 4, 0, "c">>, <<"tty1", 4, 1, "c">> >>

DeviceNames == { device_nodes[i][1] : i \in DOMAIN device_nodes }

dev_dir == <<"dev">>

\* mode & ~mask on the permission bits
RECURSIVE AndNot(_, _)
AndNot(mode, mask) ==
    IF mode = 0 THEN 0
    ELSE (mode % 2) * (1 - (mask % 2)) + 2 * AndNot(mode \div 2, mask \div 2)

\* mode = 0o666 if type_char == 'c' else 0o660
NodeMode(type_char) == IF type_char = "c" THEN 438 ELSE 432

\* os.mknod(dev_path, mode | S_IFCHR, makedev): the kernel clears the bits of
\* the umask in the mode of the new node
Mknod(t, path, type_char, mask) ==
    (path :> [kind |-> (IF type_char = "c" THEN "chr" ELSE "blk"),
              mode |-> AndNot(NodeMode(type_char), mask),
              content |-> "none"]) @@ t

\* os.mknod raises OSError: the caller told us so (EPERM without CAP_MKNOD,
\* a file system without device nodes), or the dev directory is missing
MknodFails(t, name, failing) ==
    \/ name \in failing
    \/ dev_dir \notin DOMAIN t
    \/ t[dev_dir].kind # "dir"

\* mutant of AfterNodeError: the first failure ends the loop
AbortAfterNodeError(rest) == << >>

\* except OSError / except Exception inside the loop: print, go on with the
\* next entry of the table
AfterNodeError(rest) == rest

\* the loop of create_device_nodes over the rest of the table
RECURSIVE DeviceLoop(_, _, _, _, _, _)
DeviceLoop(t, attempted, warned, nodes, failing, mask) ==
    IF nodes = << >> THEN [tree |-> t, attempted |-> attempted, warned |-> warned]
    ELSE LET name == Head(nodes)[1]
             type_char == Head(nodes)[4]
             dev_path == Append(dev_dir, name)
         IN  IF dev_path \in DOMAIN t
             THEN DeviceLoop(t, attempted, warned, Tail(nodes), failing, mask)
             ELSE IF MknodFails(t, name, failing)
                  THEN DeviceLoop(t, attempted \cup {name}, warned \cup {name},
                                  AfterNodeError(Tail(nodes)), failing, mask)
                  ELSE DeviceLoop(Mknod(t, dev_path, type_char, mask),
                                  attempted \cup {name}, warned,
                                  Tail(nodes), failing, mask)

\* ---- os.walk -----------------------------------------------------------

Children(t, d) == { p \in DOMAIN t : p # << >> /\ Parent(p) = d }

RECURSIVE SetToSeq(_)
SetToSeq(S) ==
    IF S = {} THEN << >>
    ELSE LET x == CHOOSE y \in S : TRUE IN <<x>> \o SetToSeq(S \ {x})

\* the directories os.walk(rootfs_base_dir) yields, top-down, in the order it
\* yields them; todo is the list of directories still to be visited
RECURSIVE WalkFrom(_, _)
WalkFrom(t, todo) ==
    IF todo = << >> THEN << >>
    ELSE <<Head(todo)>> \o
         WalkFrom(t, SetToSeq({ p \in Children(t, Head(todo)) : t[p].kind = "dir" })
                     \o Tail(todo))

WalkDirs(t) == IF << >> \in DOMAIN t THEN WalkFrom(t, << << >> >>) ELSE << >>

\* the entries os.walk lists in filenames: everything that is not a directory
RECURSIVE FilesOf(_, _)
FilesOf(t, ds) ==
    IF ds = << >> THEN << >>
    ELSE SetToSeq({ p \in Children(t, Head(ds)) : t[p].kind # "dir" }) \o FilesOf(t, Tail(ds))

WalkFiles(t) == FilesOf(t, WalkDirs(t))

\* ---- set_rootfs_permissions -------------------------------------------

\* mutant of GeneralPassExcluded: var/lock is not in the list
GeneralPassExcludedNoLock ==
    { <<"tmp">>, <<"var", "tmp">>, <<"var", "log">>, <<"var", "run">>, <<"dev">> }

\* the directories the general directory pass leaves alone
GeneralPassExcluded ==
    { <<"tmp">>, <<"var", "tmp">>, <<"var", "log">>, <<"var", "run">>,
      <<"var", "lock">>, <<"dev">> }

\* mutant of AfterChmodError: the first failure ends the loop
AbortAfterChmodError(rest) == << >>

\* except Exception inside the loops of the two passes: print, go on
AfterChmodError(rest) == rest

\* the general directory pass over the directories still to be visited
RECURSIVE DirPass(_, _, _, _)
DirPass(t, warned, ds, failing) ==
    IF ds = << >> THEN [tree |-> t, warned |-> warned]
    ELSE LET d == Head(ds)
         IN  IF d \in GeneralPassExcluded
             THEN DirPass(t, warned, Tail(ds), failing)
             ELSE IF d \in failing
                  THEN DirPass(t, warned \cup {d}, AfterChmodError(Tail(ds)), failing)
                  ELSE DirPass([t EXCEPT ![d].mode = 493], warned, Tail(ds), failing)

\* the condition under which a file is made executable
IsExecutable(t, file_path) ==
    \/ ParentName(file_path) \in {"bin", "sbin"}
    \/ (GrandParentName(file_path) = "usr" /\ ParentName(file_path) \in {"bin", "sbin"})
    \/ (/\ NameEndsWithSh(Name(file_path))
        /\ Resolve(file_path) \in DOMAIN t
        /\ t[Resolve(file_path)].kind = "file"
        /\ ContainsBinSh(t[Resolve(file_path)].content))
    \/ (Name(file_path) = "rcS" /\ ParentName(file_path) = "init.d")
    \/ (Name(file_path) = "init" /\ Parent(file_path) = << >>)

\* mutant of FileMode: a file that is not executable keeps its mode
FileModeKeepsOthers(t, file_path) ==
    IF IsExecutable(t, file_path) THEN 493 ELSE t[file_path].mode

\* the mode the file pass gives a file
FileMode(t, file_path) == IF IsExecutable(t, file_path) THEN 493 ELSE 420

\* the file pass over the files still to be visited
RECURSIVE FilePass(_, _, _, _)
FilePass(t, warned, fs_, failing) ==
    IF fs_ = << >> THEN [tree |-> t, warned |-> warned]
    ELSE LET f == Head(fs_)
         IN  IF f \in failing \/ Resolve(f) \notin DOMAIN t
             THEN FilePass(t, warned \cup {f}, AfterChmodError(Tail(fs_)), failing)
             ELSE FilePass([t EXCEPT ![Resolve(f)].mode = FileMode(t, f)], warned, Tail(fs_),
                           failing)

\* the override modes, in the order the function applies them
special_dirs ==
    << << <<"tmp">>, 1023 >>, << <<"var", "tmp">>, 1023 >>,
       << <<"var", "log">>, 511 >>, << <<"var", "run">>, 511 >>,
       << <<"var", "lock">>, 511 >>,
       << <<"dev">>, 493 >>, << << >>, 493 >> >>

\* the overrides still to be applied
RECURSIVE SpecialPass(_, _, _, _)
SpecialPass(t, warned, ss, failing) ==
    IF ss = << >> THEN [tree |-> t, warned |-> warned]
    ELSE LET s_dir == Head(ss)[1]
             mode == Head(ss)[2]
         IN  IF s_dir \in DOMAIN t /\ t[s_dir].kind = "dir"
             THEN IF s_dir \in failing
                  THEN SpecialPass(t, warned \cup {s_dir}, Tail(ss), failing)
                  ELSE SpecialPass([t EXCEPT ![s_dir].mode = mode], warned, Tail(ss), failing)
             ELSE SpecialPass(t, warned, Tail(ss), failing)

\* ---- the trees the two functions are run on ---------------------------

OptionalPaths == { <<"tmp">>, <<"var", "lock">>, <<"init">> }

\* what chmod and read_bytes may fail on
FailCandidates == { <<"opt">>, <<"etc", "hostname">>, <<"tmp">> }

\* modes of directories and of files before the functions run
InitialModes == { <<493, 420>>, <<448, 384>>, <<511, 493>> }

InitScriptContents == {"sh_shebang", "plain"}

TreeDirs(opt) ==
    { << >>, <<"bin">>, <<"bin", "sub">>, <<"usr">>, <<"usr", "sbin">>, <<"etc">>,
      <<"etc", "init.d">>, <<"var">>, <<"var", "tmp">>, <<"var", "log">>,
      <<"var", "run">>, <<"dev">>, <<"opt">>, <<"opt", "tmp">> }
    \cup (opt \cap { <<"tmp">>, <<"var", "lock">> })

TreeFiles(opt, rcS, sh, hook) ==
    LET always == (<<"bin", "busybox">> :> "plain")
                  @@ (<<"bin", "sub", "tool">> :> "plain")
                  @@ (<<"usr", "sbin", "httpd">> :> "plain")
                  @@ (<<"etc", "hostname">> :> "plain")
                  @@ (<<"etc", "init.d", "rcS">> :> rcS)
                  @@ (<<"etc", "run.sh">> :> sh)
                  @@ (<<"etc", "hook">> :> hook)
    IN  IF <<"init">> \in opt THEN (<<"init">> :> rcS) @@ always ELSE always

TreeOf(opt, modes, rcS, sh, hook) ==
    [ p \in TreeDirs(opt) \cup DOMAIN TreeFiles(opt, rcS, sh, hook) |->
        IF p \in TreeDirs(opt)
        THEN DirEntry(modes[1])
        ELSE FileEntry(modes[2], TreeFiles(opt, rcS, sh, hook)[p]) ]

PermFresh ==
    /\ symlinks = << >>
    /\ treeBefore = tree
    /\ mknodAttempted = {}
    /\ devWarned = {}
    /\ permWarned = {}
    /\ permPc = "devnodes"

\* main reaches create_device_nodes with the tree the earlier steps built
PermInit ==
    /\ \E opt \in SUBSET OptionalPaths, modes \in InitialModes,
          rcS \in InitScriptContents, sh \in Contents, hook \in InitScriptContents :
            tree = TreeOf(opt, modes, rcS, sh, hook)
    /\ permFail \in SUBSET FailCandidates
    /\ mknodFail \in {{}, DeviceNames}
    /\ PermFresh

\* create_device_nodes on its own: a dev directory that may be missing, nodes
\* left by an earlier run, any set of nodes whose creation fails
DevInit ==
    /\ \E hasDev \in BOOLEAN, present \in SUBSET { <<"dev", "null">>, <<"dev", "tty">> } :
         tree = [ p \in { << >> } \cup (IF hasDev THEN {dev_dir} \cup present ELSE {}) |->
                    IF p \in present
                    THEN [kind |-> "chr", mode |-> 384, content |-> "none"]
                    ELSE DirEntry(493) ]
    /\ permFail = {}
    /\ mknodFail \in SUBSET DeviceNames
    /\ PermFresh

\* the symlinks a root file system of the model may hold: an applet link next
\* to busybox, links across directories, a link whose target is not there
TreeLinks ==
    (<<"bin", "sh">> :> <<"bin", "busybox">>)
    @@ (<<"etc", "alias">> :> <<"bin", "busybox">>)
    @@ (<<"usr", "sbin", "hostname">> :> <<"etc", "hostname">>)
    @@ (<<"etc", "mtab">> :> <<"proc", "mounts">>)

LinkTreeDirs == { << >>, <<"bin">>, <<"etc">>, <<"usr">>, <<"usr", "sbin">> }

LinkTreeFiles == { <<"bin", "busybox">>, <<"etc", "hostname">> }

\* main reaches set_rootfs_permissions with a tree that holds symlinks
PermLinkInit ==
    /\ \E modes \in InitialModes, L \in SUBSET DOMAIN TreeLinks :
         /\ symlinks = [ p \in L |-> TreeLinks[p] ]
         /\ tree = [ p \in LinkTreeDirs \cup LinkTreeFiles \cup L |->
                      IF p \in LinkTreeDirs THEN DirEntry(modes[1])
                      ELSE IF p \in LinkTreeFiles THEN FileEntry(modes[2], "plain")
                      ELSE LinkEntry ]
    /\ permFail \in SUBSET { <<"etc", "hostname">> }
    /\ mknodFail = {}
    /\ treeBefore = tree
    /\ mknodAttempted = {}
    /\ devWarned = {}
    /\ permWarned = {}
    /\ permPc = "dirpass"

\* neither function is under study
PermIdle ==
    /\ symlinks = << >>
    /\ tree = << >>
    /\ treeBefore = << >>
    /\ permFail = {}
    /\ mknodFail = {}
    /\ mknodAttempted = {}
    /\ devWarned = {}
    /\ permWarned = {}
    /\ permPc = "idle"

\* create_device_nodes, from its first statement to its return
CreateDeviceNodes ==
    /\ permPc = "devnodes"
    /\ LET r == DeviceLoop(tree, {}, {}, device_nodes, mknodFail, umask)
       IN  /\ tree' = r.tree
           /\ mknodAttempted' = r.attempted
           /\ devWarned' = r.warned
    /\ treeBefore' = tree
    /\ permPc' = "dirpass"
    /\ UNCHANGED <<permFail, mknodFail, permWarned, patchVars, imgVars, dirsVars, libsVars, ramVars, lateVars>>

\* set_rootfs_permissions: the general directory pass
PermDirPass ==
    /\ permPc = "dirpass"
    /\ LET r == DirPass(tree, permWarned, WalkDirs(tree), permFail)
       IN  /\ tree' = r.tree
           /\ permWarned' = r.warned
    /\ permPc' = "filepass"
    /\ UNCHANGED <<treeBefore, permFail, mknodFail, mknodAttempted, devWarned,
                   patchVars, imgVars, dirsVars, libsVars, ramVars, lateVars>>

\* set_rootfs_permissions: the file pass
PermFilePass ==
    /\ permPc = "filepass"
    /\ LET r == FilePass(tree, permWarned, WalkFiles(tree), permFail)
       IN  /\ tree' = r.tree
           /\ permWarned' = r.warned
    /\ permPc' = "special"
    /\ UNCHANGED <<treeBefore, permFail, mknodFail, mknodAttempted, devWarned,
                   patchVars, imgVars, dirsVars, libsVars, ramVars, lateVars>>

\* the orders in which a directory scan (os.scandir, glob) may yield a set of paths
Orders(S) ==
    { o \in [1..Cardinality(S) -> S] : \A i, j \in 1..Cardinality(S) : i # j => o[i] # o[j] }

RECURSIVE Flatten(_)
Flatten(ss) == IF ss = << >> THEN << >> ELSE Head(ss) \o Flatten(Tail(ss))

\* the orders in which os.walk, top-down from directory d, may list the
\* entries that are not directories: the entries of d in any order, then
\* the subdirectories of d in any order, each with its own subtree
RECURSIVE WalkFileOrders(_, _)
WalkFileOrders(t, d) ==
    LET files == { p \in Children(t, d) : t[p].kind # "dir" }
        subs  == { p \in Children(t, d) : t[p].kind = "dir" }
        below == [ q \in subs |-> WalkFileOrders(t, q) ]
    IN  { fo \o Flatten([ i \in 1..Cardinality(subs) |-> c[so[i]] ]) :
            fo \in Orders(files), so \in Orders(subs),
            c \in { g \in [subs -> UNION { below[q] : q \in subs }] :
                      \A q \in subs : g[q] \in below[q] } }

\* set_rootfs_permissions: the file pass, in any order os.walk may take
PermFilePassAnyOrder ==
    /\ permPc = "filepass"
    /\ \E order \in WalkFileOrders(tree, << >>) :
         LET r == FilePass(tree, permWarned, order, permFail)
         IN  /\ tree' = r.tree
             /\ permWarned' = r.warned
    /\ permPc' = "special"
    /\ UNCHANGED <<treeBefore, permFail, mknodFail, mknodAttempted, devWarned,
                   patchVars, imgVars, dirsVars, libsVars, ramVars, lateVars>>

\* set_rootfs_permissions: the overrides of the special directories, then
\* the return
PermSpecialPass ==
    /\ permPc = "special"
    /\ LET r == SpecialPass(tree, permWarned, special_dirs, permFail)
       IN  /\ tree' = r.tree
           /\ permWarned' = r.warned
    /\ permPc' = "returned"
    /\ UNCHANGED <<treeBefore, permFail, mknodFail, mknodAttempted, devWarned,
                   patchVars, imgVars, dirsVars, libsVars, ramVars, lateVars>>

-----------------------------------------------------------------------------
(* ---------------- find_dynamic_libraries ------------------------------- *)

\* A name is a token sequence, a path below cross_compiler_root is the
\* sequence of its names; << >> is cross_compiler_root itself.

\* str.rstrip(chars)
RECURSIVE RStripChars(_, _)
RStripChars(s, chars) ==
    IF s # << >> /\ s[Len(s)] \in chars THEN RStripChars(SubSeq(s, 1, Len(s) - 1), chars) ELSE s

\* cross_prefix.rstrip('-')
TargetName(prefix) == RStripChars(prefix, {"-"})

CrossPrefixes == { <<"aarch64-linux-gnu", "-">>, <<"arm-linux-gnueabihf", "-">> }

Sonames == { <<"libc.so.6">>, <<"libm.so.6">>, <<"libresolv.so.2">> }

\* the library files a sysroot of the model may hold
SysrootFiles(prefix) ==
    LET T == TargetName(prefix)
        G == T \o <<"-", "sysroot">>
    IN  { <<T, <<"lib">>, <<"libc.so.6">> >>,
          << <<"usr">>, <<"lib">>, <<"libc.so.6">> >>,
          << <<"usr">>, <<"lib">>, <<"libm.so.6">> >>,
          << <<"aarch64-linux-gnu">>, <<"libc">>, <<"lib">>, <<"libc.so.6">> >>,
          << <<"opt">>, G, <<"lib">>, <<"libc.so.6">> >>,
          << <<"opt">>, G, <<"lib">>, <<"libm.so.6">> >> }

Prefixes(p) == { SubSeq(p, 1, k) : k \in 0..Len(p) }

\* the paths that exist below cross_compiler_root
SysPaths(files) == UNION { Prefixes(f) : f \in files }

\* pathlib.Path.is_dir below cross_compiler_root: library files are leaves
SysIsDir(files, p) == p \in UNION { Prefixes(f) \ {f} : f \in files }

\* what readelf -d prints: one line per dynamic entry, <<tag, value>>
ReadelfStdout(needed) ==
    << <<"SONAME", <<"busybox">> >> >>
    \o [ i \in 1..Cardinality(needed) |-> <<"NEEDED", SetToSeq(needed)[i]>> ]
    \o << <<"RUNPATH", <<"lib">> >> >>

\* the loop over result.stdout.splitlines(): the names of the NEEDED lines
ParseNeeded(stdout) == { stdout[i][2] : i \in { j \in DOMAIN stdout : stdout[j][1] = "NEEDED" } }

\* mutant of OnReadelfError: the handler ends the process as run_command does
OnReadelfErrorExit(exc) == "SystemExit"

\* except FileNotFoundError / except CalledProcessError: print, return []
OnReadelfError(exc) == "return"

\* the six fixed entries of search_paths
FixedSearchPaths(prefix) ==
    LET T == TargetName(prefix)
    IN  << <<T, <<"libc">> >>, <<T, <<"lib">> >>, << <<"lib">> >>,
           << <<"usr">>, <<"lib">> >>, << <<"usr">>, T, <<"lib">> >>,
           << <<"usr">>, T, <<"libc">> >> >>

sysroot_path == << <<"aarch64-linux-gnu">>, <<"libc">> >>

\* pathlib.Path(cross_compiler_root).glob("**/" + target + "*")
GlobTarget(files, prefix) ==
    { p \in SysPaths(files) : p # << >> /\ StartsWith(p[Len(p)], TargetName(prefix)) }

\* the fallback loop over the paths glob yields
RECURSIVE FallbackPaths(_, _)
FallbackPaths(files, ps) ==
    IF ps = << >> THEN << >>
    ELSE LET p == Head(ps)
         IN  (IF SysIsDir(files, p) /\ SysIsDir(files, Append(p, <<"lib">>))
              THEN << Append(p, <<"lib">>), p \o << <<"usr">>, <<"lib">> >> >>
              ELSE << >>)
             \o FallbackPaths(files, Tail(ps))

\* mutant of AfterFound: no break, the inner loop goes on after a match
AfterFoundNoBreak(rest) == rest

\* break: the inner loop ends at the first match
AfterFound(rest) == << >>

\* the inner loop over search_paths for one lib_name: the paths appended
RECURSIVE Matches(_, _, _)
Matches(files, paths, lib_name) ==
    IF paths = << >> THEN << >>
    ELSE IF Append(Head(paths), lib_name) \in SysPaths(files)
         THEN << Append(Head(paths), lib_name) >>
              \o Matches(files, AfterFound(Tail(paths)), lib_name)
         ELSE Matches(files, Tail(paths), lib_name)

\* the outer loop over needed_libs
RECURSIVE ResolveLoop(_, _, _)
ResolveLoop(files, paths, libs) ==
    IF libs = << >> THEN [found |-> << >>, warned |-> << >>]
    ELSE LET m == Matches(files, paths, Head(libs))
             r == ResolveLoop(files, paths, Tail(libs))
         IN  [found |-> m \o r.found,
              warned |-> (IF m = << >> THEN <<Head(libs)>> ELSE << >>) \o r.warned]

\* list(set(found_lib_paths))
ListOfSet(s) == SetToSeq({ s[i] : i \in DOMAIN s })

LibsFresh ==
    /\ needed_libs = {}
    /\ search_paths = << >>
    /\ libResult = << >>
    /\ libWarned = << >>
    /\ libPc = "readelf"

\* create_initramfs calls the resolver for the staged busybox binary
LibsInit ==
    /\ cross_prefix \in CrossPrefixes
    /\ cross_compiler_root \in {"None", "sysroot"}
    /\ sysFiles \in SUBSET SysrootFiles(cross_prefix)
    /\ readelfOutcome \in CmdOutcomes
    /\ \E needed \in SUBSET Sonames : readelfStdout = ReadelfStdout(needed)
    /\ LibsFresh

\* the resolver is not under study
LibsIdle ==
    /\ cross_prefix = << >>
    /\ cross_compiler_root = "None"
    /\ sysFiles = {}
    /\ readelfOutcome = "ok"
    /\ readelfStdout = << >>
    /\ needed_libs = {}
    /\ search_paths = << >>
    /\ libResult = << >>
    /\ libWarned = << >>
    /\ libPc = "idle"

\* the try block: run readelf -d, collect the NEEDED names
RunReadelf ==
    /\ libPc = "readelf"
    /\ IF SubprocessRun(readelfOutcome) = "none"
       THEN /\ needed_libs' = ParseNeeded(readelfStdout)
            /\ libPc' = "paths"
       ELSE /\ needed_libs' = needed_libs
            /\ libPc' = (IF OnReadelfError(SubprocessRun(readelfOutcome)) = "return"
                         THEN "returned" ELSE "exited")
    /\ UNCHANGED <<cross_prefix, cross_compiler_root, sysFiles, readelfOutcome, readelfStdout,
                   search_paths, libResult, libWarned, permVars, patchVars, imgVars, dirsVars, ramVars, lateVars>>

\* the check of cross_compiler_root, then the construction of search_paths
BuildSearchPaths ==
    /\ libPc = "paths"
    /\ IF cross_compiler_root = "None"
       THEN /\ search_paths' = search_paths
            /\ libPc' = "returned"
       ELSE /\ IF SysIsDir(sysFiles, sysroot_path)
               THEN search_paths' = FixedSearchPaths(cross_prefix)
                                    \o << Append(sysroot_path, <<"lib">>),
                                          sysroot_path \o << <<"usr">>, <<"lib">> >> >>
               ELSE \E o \in Orders(GlobTarget(sysFiles, cross_prefix)) :
                      search_paths' = FixedSearchPaths(cross_prefix) \o FallbackPaths(sysFiles, o)
            /\ libPc' = "resolve"
    /\ UNCHANGED <<cross_prefix, cross_compiler_root, sysFiles, readelfOutcome, readelfStdout,
                   needed_libs, libResult, libWarned, permVars, patchVars, imgVars, dirsVars, ramVars, lateVars>>

\* the search loop and the return of the paths found
ResolveLibraries ==
    /\ libPc = "resolve"
    /\ LET r == ResolveLoop(sysFiles, search_paths, SetToSeq(needed_libs))
       IN  /\ libResult' = ListOfSet(r.found)
           /\ libWarned' = r.warned
    /\ libPc' = "returned"
    /\ UNCHANGED <<cross_prefix, cross_compiler_root, sysFiles, readelfOutcome, readelfStdout,
                   needed_libs, search_paths, permVars, patchVars, imgVars, dirsVars, ramVars, lateVars>>

-----------------------------------------------------------------------------
(* ---------------- create_initramfs ------------------------------------- *)

\* Popen.returncode: None until the process object was waited for, then the
\* exit status
Returncode(waited, outcome) ==
    IF ~waited THEN "None" ELSE IF outcome = "ok" THEN "0" ELSE "1"

\* mutant of RamAfterTry: an exception leaves the function at once
RamAfterTryNoFinally(exc) == IF exc = "none" THEN "cleanup" ELSE "exited"

\* the finally clause of create_initramfs runs however the try block was left
RamAfterTry(exc) == "cleanup"

\* a library directly in the first search path, <target>/libc
SysrootLibcFile(prefix) == <<TargetName(prefix), <<"libc">>, <<"libc.so.6">> >>

\* the library files of the sysroot the initramfs is built against
RamSysroots(prefix) ==
    { {}, { f \in SysrootFiles(prefix) : f[1] = <<"usr">> }, SysrootFiles(prefix),
      { SysrootLibcFile(prefix), << <<"usr">>, <<"lib">>, <<"libm.so.6">> >> } }

\* the values of cross_compiler_root in busybox.yaml, as path names
CrossRoots == { << >>, << <<"opt">>, <<"cross">> >> }

\* what os.readlink returns for a library that is a symlink
LinkTargets == { <<"libc-2.31.so">>, <<"..", "libc", "libc.so">> }

\* the directories create_initramfs makes below the staging directory
StagingDirs ==
    { << <<"bin">> >>, << <<"sbin">> >>, << <<"lib">> >>, << <<"lib64">> >>, << <<"dev">> >>,
      << <<"proc">> >>, << <<"sys">> >>, << <<"mnt">> >> }

DirNode == [kind |-> "dir", target |-> << >>]

FileNode == [kind |-> "file", target |-> << >>]

SymlinkNode(t) == [kind |-> "symlink", target |-> t]

\* "name" in lib_path.parts
InParts(name, path) == \E i \in DOMAIN path : path[i] = name

\* pathlib.Path.is_dir below the staging directory
StagingIsDir(stg, d) == d \in StagingDirs \/ (d \in DOMAIN stg /\ stg[d].kind = "dir")

\* dest_dir of one library: the parent of lib_path below the staging
\* directory when that is a directory, else lib64 or lib when lib_path has
\* such a part, else the parent all the same
DestDir(stg, lib_path) ==
    LET parent == SubSeq(lib_path, 1, Len(lib_path) - 1)
    IN  IF StagingIsDir(stg, parent) THEN parent
        ELSE IF InParts(<<"lib64">>, lib_path) THEN << <<"lib64">> >>
        ELSE IF InParts(<<"lib">>, lib_path) THEN << <<"lib">> >>
        ELSE parent

\* dest_dir.mkdir(parents=True, exist_ok=True)
DestDirMkdir(stg, d) ==
    [ q \in { q \in Prefixes(d) : q # << >> /\ ~StagingIsDir(stg, q) } |-> DirNode ] @@ stg

\* mutant of AfterCopy2: the copy is kept, no symlink is made
AfterCopy2KeepCopy(links, rel, entry) == entry

\* lib_path.is_symlink(): the copy is unlinked and a symlink with the target
\* os.readlink returned takes its place
AfterCopy2(links, rel, entry) ==
    IF rel \in DOMAIN links THEN SymlinkNode(links[rel]) ELSE entry

\* the loop over needed_libs; the paths are relative to cross_compiler_root
RECURSIVE CopyLibsLoop(_, _, _, _)
CopyLibsLoop(stg, root, links, libs) ==
    IF libs = << >> THEN stg
    ELSE LET rel      == Head(libs)
             lib_path == root \o rel
             dest_dir == DestDir(stg, lib_path)
             made     == DestDirMkdir(stg, dest_dir)
             staged1  == (Append(dest_dir, lib_path[Len(lib_path)])
                            :> AfterCopy2(links, rel, FileNode)) @@ made
         IN  CopyLibsLoop(staged1, root, links, Tail(libs))

RamNeeded == { {}, { <<"libc.so.6">> }, { <<"libc.so.6">>, <<"libresolv.so.2">> } }

\* main calls create_initramfs(rootfs_dir, output_initramfs_path, cross_compiler_root)
RamInit ==
    /\ ramEuidRoot \in BOOLEAN
    /\ busyboxExists \in BOOLEAN
    /\ crossRootParts \in CrossRoots
    /\ libLinks = << >>
    /\ ramPc = "start"
    /\ temp_initramfs_staging_dir = "None"
    /\ stagingExists = FALSE
    /\ staged = {}
    /\ stagedLibs = << >>
    /\ archive = "none"
    /\ ramExc = "none"
    /\ ramLog = << >>
    /\ ramRmtreeAttempted = FALSE
    /\ ramWarned = FALSE
    \* the resolver, waiting to be called
    /\ cross_prefix \in CrossPrefixes
    /\ cross_compiler_root \in {"None", "sysroot"}
    /\ sysFiles \in RamSysroots(cross_prefix)
    /\ readelfOutcome \in CmdOutcomes
    /\ \E needed \in RamNeeded : readelfStdout = ReadelfStdout(needed)
    /\ needed_libs = {}
    /\ search_paths = << >>
    /\ libResult = << >>
    /\ libWarned = << >>
    /\ libPc = "waiting"

\* create_initramfs is not under study
RamIdle ==
    /\ ramEuidRoot = TRUE
    /\ crossRootParts = << >>
    /\ libLinks = << >>
    /\ busyboxExists = TRUE
    /\ ramPc = "idle"
    /\ temp_initramfs_staging_dir = "None"
    /\ stagingExists = FALSE
    /\ staged = {}
    /\ stagedLibs = << >>
    /\ archive = "none"
    /\ ramExc = "none"
    /\ ramLog = << >>
    /\ ramRmtreeAttempted = FALSE
    /\ ramWarned = FALSE

\* an exception leaves the try block: except Exception prints and calls
\* sys.exit(1), SystemExit passes the handler; then the finally clause
RamRaise(exc) ==
    /\ ramExc' = TryExcept(exc)
    /\ ramPc' = RamAfterTry(TryExcept(exc))

\* the privilege check before the try block
RamStart ==
    /\ ramPc = "start"
    /\ ramPc' = (IF ramEuidRoot THEN "mkdtemp" ELSE "exited")
    /\ UNCHANGED <<ramEuidRoot, busyboxExists, temp_initramfs_staging_dir, stagingExists, staged,
                   stagedLibs, archive, ramExc, ramLog, ramRmtreeAttempted, ramWarned,
                   libsVars, permVars, patchVars, imgVars, dirsVars, lateVars>>

\* tempfile.mkdtemp(prefix="initramfs_staging_")
RamMkdtemp ==
    /\ ramPc = "mkdtemp"
    /\ \E o \in FileOutcomes :
         /\ ramLog' = Append(ramLog, <<"mkdtemp", o>>)
         /\ IF o = "ok"
            THEN /\ temp_initramfs_staging_dir' = "dir"
                 /\ stagingExists' = TRUE
                 /\ ramPc' = "busybox"
                 /\ ramExc' = ramExc
            ELSE /\ RamRaise("OSError")
                 /\ UNCHANGED <<temp_initramfs_staging_dir, stagingExists>>
    /\ UNCHANGED <<ramEuidRoot, busyboxExists, staged, stagedLibs, archive, ramRmtreeAttempted,
                   ramWarned, libsVars, permVars, patchVars, imgVars, dirsVars, lateVars>>

\* the check of rootfs_base_dir/bin/busybox, the eight mkdir calls, the copy
\* of the binary and its chmod
RamStageBusybox ==
    /\ ramPc = "busybox"
    /\ IF ~busyboxExists
       THEN /\ RamRaise("SystemExit")
            /\ UNCHANGED <<staged, ramLog>>
       ELSE \E o \in FileOutcomes :
              /\ ramLog' = Append(ramLog, <<"copy busybox", o>>)
              /\ IF o = "ok"
                 THEN /\ staged' = staged \cup {"dirs", "bin/busybox"}
                      /\ ramPc' = "install"
                      /\ ramExc' = ramExc
                 ELSE /\ RamRaise("OSError")
                      /\ staged' = staged
    /\ UNCHANGED <<ramEuidRoot, busyboxExists, temp_initramfs_staging_dir, stagingExists,
                   stagedLibs, archive, ramRmtreeAttempted, ramWarned,
                   libsVars, permVars, patchVars, imgVars, dirsVars, lateVars>>

\* the two run_command calls of busybox --install -s, for bin and for sbin
RamInstallLinks ==
    /\ ramPc = "install"
    /\ \E o1, o2 \in CmdOutcomes :
         IF RunCommand(FALSE, ramEuidRoot, o1) # "none"
         THEN /\ ramLog' = Append(ramLog, <<"busybox --install bin", o1>>)
              /\ RamRaise(RunCommand(FALSE, ramEuidRoot, o1))
              /\ staged' = staged
         ELSE /\ ramLog' = ramLog \o << <<"busybox --install bin", o1>>,
                                        <<"busybox --install sbin", o2>> >>
              /\ IF RunCommand(FALSE, ramEuidRoot, o2) # "none"
                 THEN /\ RamRaise(RunCommand(FALSE, ramEuidRoot, o2))
                      /\ staged' = staged \cup {"bin links"}
                 ELSE /\ staged' = staged \cup {"bin links", "sbin links"}
                      /\ ramPc' = "resolve"
                      /\ ramExc' = ramExc
    /\ UNCHANGED <<ramEuidRoot, busyboxExists, temp_initramfs_staging_dir, stagingExists,
                   stagedLibs, archive, ramRmtreeAttempted, ramWarned,
                   libsVars, permVars, patchVars, imgVars, dirsVars, lateVars>>

\* the call find_dynamic_libraries(busybox_bin, cross_compiler_root)
RamCallResolver ==
    /\ ramPc = "resolve"
    /\ libPc = "waiting"
    /\ libPc' = "readelf"
    /\ ramPc' = "resolving"
    /\ UNCHANGED <<ramEuidRoot, busyboxExists, temp_initramfs_staging_dir, stagingExists, staged,
                   stagedLibs, archive, ramExc, ramLog, ramRmtreeAttempted, ramWarned,
                   cross_prefix, cross_compiler_root, sysFiles, readelfOutcome, readelfStdout,
                   needed_libs, search_paths, libResult, libWarned,
                   permVars, patchVars, imgVars, dirsVars, lateVars>>

\* the loop that copies the libraries the resolver returned
RamCopyLibs ==
    /\ ramPc = "resolving"
    /\ libPc = "returned"
    /\ \E o \in (IF libResult = << >> THEN {"ok"} ELSE FileOutcomes),
          L \in SUBSET { libResult[i] : i \in DOMAIN libResult } :
         \E links \in [L -> LinkTargets] :
           /\ ramLog' = Append(ramLog, <<"copy libraries", o>>)
           /\ libLinks' = links
           /\ IF o = "ok"
              THEN /\ stagedLibs' = CopyLibsLoop(stagedLibs, crossRootParts, links, libResult)
                   /\ ramPc' = "init"
                   /\ ramExc' = ramExc
              ELSE /\ RamRaise("OSError")
                   /\ stagedLibs' = stagedLibs
    /\ UNCHANGED <<ramEuidRoot, busyboxExists, temp_initramfs_staging_dir, stagingExists, staged,
                   archive, ramRmtreeAttempted, ramWarned, crossRootParts, shVars, symlinks,
                   mainVars,
                   libsVars, permVars, patchVars, imgVars, dirsVars>>

\* init_script_path.write_text and its chmod
RamWriteInit ==
    /\ ramPc = "init"
    /\ \E o \in FileOutcomes :
         /\ ramLog' = Append(ramLog, <<"write init", o>>)
         /\ IF o = "ok"
            THEN /\ staged' = staged \cup {"init"}
                 /\ ramPc' = "mknod"
                 /\ ramExc' = ramExc
            ELSE /\ RamRaise("OSError")
                 /\ staged' = staged
    /\ UNCHANGED <<ramEuidRoot, busyboxExists, temp_initramfs_staging_dir, stagingExists,
                   stagedLibs, archive, ramRmtreeAttempted, ramWarned,
                   libsVars, permVars, patchVars, imgVars, dirsVars, lateVars>>

\* the loop of os.mknod calls for the staging dev directory
RamMknod ==
    /\ ramPc = "mknod"
    /\ \E o \in FileOutcomes :
         /\ ramLog' = Append(ramLog, <<"mknod", o>>)
         /\ IF o = "ok"
            THEN /\ staged' = staged \cup {"dev nodes"}
                 /\ ramPc' = "archive"
                 /\ ramExc' = ramExc
            ELSE /\ RamRaise("OSError")
                 /\ staged' = staged
    /\ UNCHANGED <<ramEuidRoot, busyboxExists, temp_initramfs_staging_dir, stagingExists,
                   stagedLibs, archive, ramRmtreeAttempted, ramWarned,
                   libsVars, permVars, patchVars, imgVars, dirsVars, lateVars>>

\* find | cpio through two Popen objects, the two returncode checks, the
\* write of the archive, gzip and shutil.move.  Only cpio_proc is waited for
\* (communicate); find_proc.returncode is read without wait or poll.
RamArchive ==
    /\ ramPc = "archive"
    /\ \E find, cpio, gzip \in CmdOutcomes, write, move \in FileOutcomes :
         IF find = "notfound"
         THEN /\ ramLog' = Append(ramLog, <<"find", find>>)
              /\ RamRaise("FileNotFoundError")
              /\ archive' = archive
         ELSE IF cpio = "notfound"
         THEN /\ ramLog' = ramLog \o << <<"find", find>>, <<"cpio", cpio>> >>
              /\ RamRaise("FileNotFoundError")
              /\ archive' = archive
         ELSE IF Returncode(FALSE, find) # "0" \/ Returncode(TRUE, cpio) # "0"
         THEN /\ ramLog' = ramLog \o << <<"find", find>>, <<"cpio", cpio>> >>
              /\ RamRaise("CalledProcessError")
              /\ archive' = archive
         ELSE IF write # "ok"
         THEN /\ ramLog' = ramLog \o << <<"find", find>>, <<"cpio", cpio>>, <<"write", write>> >>
              /\ RamRaise("OSError")
              /\ archive' = archive
         ELSE IF RunCommand(FALSE, ramEuidRoot, gzip) # "none"
         THEN /\ ramLog' = ramLog \o << <<"find", find>>, <<"cpio", cpio>>, <<"write", write>>,
                                        <<"gzip", gzip>> >>
              /\ RamRaise(RunCommand(FALSE, ramEuidRoot, gzip))
              /\ archive' = "cpio"
         ELSE /\ ramLog' = ramLog \o << <<"find", find>>, <<"cpio", cpio>>, <<"write", write>>,
                                        <<"gzip", gzip>>, <<"move", move>> >>
              /\ IF move # "ok"
                 THEN /\ RamRaise("OSError")
                      /\ archive' = "gz"
                 ELSE /\ archive' = "moved"
                      /\ ramExc' = ramExc
                      /\ ramPc' = RamAfterTry("none")
    /\ UNCHANGED <<ramEuidRoot, busyboxExists, temp_initramfs_staging_dir, stagingExists, staged,
                   stagedLibs, ramRmtreeAttempted, ramWarned,
                   libsVars, permVars, patchVars, imgVars, dirsVars, lateVars>>

\* the finally clause, then the return or the exit of the process
RamCleanup ==
    /\ ramPc = "cleanup"
    /\ IF ExistsGuard(temp_initramfs_staging_dir, stagingExists)
       THEN \E o \in FileOutcomes :
              /\ ramLog' = Append(ramLog, <<"rmtree", o>>)
              /\ ramRmtreeAttempted' = TRUE
              /\ stagingExists' = (o # "ok")
              /\ ramWarned' = (o # "ok")
       ELSE UNCHANGED <<ramLog, ramRmtreeAttempted, stagingExists, ramWarned>>
    /\ ramPc' = (IF ramExc = "none" THEN "returned" ELSE "exited")
    /\ UNCHANGED <<ramEuidRoot, busyboxExists, temp_initramfs_staging_dir, staged, stagedLibs,
                   archive, ramExc, libsVars, permVars, patchVars, imgVars, dirsVars, lateVars>>

-----------------------------------------------------------------------------
(* ---------------- the init script of the initramfs --------------------- *)

\* init_script_content as the list of its commands.  "run" starts a program
\* and waits for it, "if_status_ne_0" is "if [ $? -ne 0 ]; then" with the index
\* of the first command of the else part, "jump" is the end of the then part,
\* "exec" replaces the shell by the program.
init_script_content ==
    << [op |-> "run",  cmd |-> "mount proc"],
       [op |-> "run",  cmd |-> "mount sysfs"],
       [op |-> "run",  cmd |-> "mount devtmpfs"],
       [op |-> "run",  cmd |-> "echo"],
       [op |-> "run",  cmd |-> "mdev -s"],
       [op |-> "run",  cmd |-> "echo"],
       [op |-> "run",  cmd |-> "mount /dev/mmcblk0p2 /mnt"],
       [op |-> "if_status_ne_0", else |-> 12],
       [op |-> "run",  cmd |-> "echo"],
       [op |-> "run",  cmd |-> "/bin/sh"],
       [op |-> "jump", to |-> 14],
       [op |-> "run",  cmd |-> "echo"],
       [op |-> "exec", cmd |-> "switch_root /mnt /sbin/init"],
       [op |-> "run",  cmd |-> "echo"],
       [op |-> "run",  cmd |-> "/bin/sh"] >>

\* the exit status of a command: echo cannot fail, any other program can
ExitStatuses(cmd) == IF cmd = "echo" THEN {0} ELSE {0, 1}

\* mutant of StatusNe0: the test is inverted
StatusEq0(status) == status = 0

\* [ $? -ne 0 ]
StatusNe0(status) == status # 0

\* the kernel starts /init
ShInit ==
    /\ shPc = 1
    /\ shStatus = 0
    /\ shTrace = << >>
    /\ shState = "running"

\* no init script is running
ShIdle ==
    /\ shPc = 0
    /\ shStatus = 0
    /\ shTrace = << >>
    /\ shState = "idle"

ShRunning == shState = "running" /\ shPc \in DOMAIN init_script_content

\* a simple command: the shell waits for the program and keeps its status
ShRun ==
    /\ ShRunning
    /\ init_script_content[shPc].op = "run"
    /\ \E st \in ExitStatuses(init_script_content[shPc].cmd) :
         /\ shStatus' = st
         /\ shTrace' = Append(shTrace, <<init_script_content[shPc].cmd, st>>)
    /\ shPc' = shPc + 1
    /\ shState' = (IF shPc = Len(init_script_content) THEN "exited" ELSE "running")
    /\ UNCHANGED <<patchVars, imgVars, dirsVars, permVars, libsVars, ramVars, linkVars,
                   symlinks, mainVars>>

\* if [ $? -ne 0 ]; then ... else ... fi
ShIf ==
    /\ ShRunning
    /\ init_script_content[shPc].op = "if_status_ne_0"
    /\ shPc' = (IF StatusNe0(shStatus) THEN shPc + 1 ELSE init_script_content[shPc].else)
    /\ UNCHANGED <<shStatus, shTrace, shState, patchVars, imgVars, dirsVars, permVars, libsVars,
                   ramVars, linkVars, symlinks, mainVars>>

\* the end of the then part
ShJump ==
    /\ ShRunning
    /\ init_script_content[shPc].op = "jump"
    /\ shPc' = init_script_content[shPc].to
    /\ UNCHANGED <<shStatus, shTrace, shState, patchVars, imgVars, dirsVars, permVars, libsVars,
                   ramVars, linkVars, symlinks, mainVars>>

\* exec: the program replaces the shell; when it cannot be executed the shell
\* either exits or, depending on the shell, goes on with the next command
ShExec ==
    /\ ShRunning
    /\ init_script_content[shPc].op = "exec"
    /\ \E r \in {"replaced", "exited", "running"} :
         /\ shState' = r
         /\ shStatus' = (IF r = "replaced" THEN 0 ELSE 127)
         /\ shTrace' = Append(shTrace, <<init_script_content[shPc].cmd,
                                         IF r = "replaced" THEN 0 ELSE 127>>)
    /\ shPc' = shPc + 1
    /\ UNCHANGED <<patchVars, imgVars, dirsVars, permVars, libsVars, ramVars, linkVars,
                   symlinks, mainVars>>

-----------------------------------------------------------------------------
(* ---------------- main -------------------------------------------------- *)

\* the calls of main of sub.py, and those of main of test.py, in their order
main_stages(kind) ==
    IF kind = "sub"
    THEN << "create_dirs", "download_busybox", "configure_and_install_busybox",
            "create_essential_rootfs_files", "create_device_nodes", "set_rootfs_permissions",
            "create_rootfs_ext4_image", "create_initramfs_output_dir", "create_initramfs",
            "create_bootfs_vfat_image" >>
    ELSE << "create_dirs", "download_busybox", "configure_and_install_busybox",
            "create_essential_rootfs_files", "create_device_nodes", "create_root_init_script",
            "set_rootfs_permissions", "create_rootfs_ext4_image", "create_bootfs_vfat_image" >>

\* the stages whose steps are the packager actions above
Packagers == { "create_rootfs_ext4_image", "create_bootfs_vfat_image" }

\* the copy of the packager a main calls
PackagerKind(kind, stage) ==
    IF stage = "create_rootfs_ext4_image"
    THEN (IF kind = "sub" THEN "ext4" ELSE "ext4_test")
    ELSE (IF kind = "sub" THEN "vfat" ELSE "vfat_test")

\* how a stage that is not followed step by step may end: it returns, it
\* calls sys.exit(1) in one of its handlers ("exited"), or an exception it
\* does not catch leaves it ("raised")
StageOutcomes(stage) ==
    CASE stage = "create_dirs" -> {"returned", "raised"}
      [] stage = "download_busybox" -> {"returned", "exited", "raised"}
      [] stage = "configure_and_install_busybox" -> {"returned", "exited"}
      [] stage = "create_essential_rootfs_files" -> {"returned", "raised"}
      [] stage = "create_root_init_script" -> {"returned", "raised"}
      [] stage = "create_device_nodes" -> {"returned"}
      [] stage = "set_rootfs_permissions" -> {"returned"}
      [] stage = "create_initramfs_output_dir" -> {"returned", "exited"}

\* mutant of EndsProcess: an exception no handler catches does not end main
EndsProcessOnExitOnly(outcome) == outcome = "exited"

\* SystemExit and an uncaught exception both unwind main and end the process
EndsProcess(outcome) == outcome # "returned"

\* the status of the process when a stage ended this way: sys.exit(1), or
\* the status 1 the interpreter gives an uncaught exception
StatusAfter(outcome) == IF EndsProcess(outcome) THEN "exit1" ELSE "running"

CurrentStage == IF mainStage = 0 THEN "none" ELSE main_stages(mainKind)[mainStage]

\* the state of main after its current stage ended with the given outcome
MainStageEnds(outcome) ==
    /\ mainLog' = Append(mainLog, <<CurrentStage, outcome>>)
    /\ mainPhase' = "between"
    /\ mainStatus' = (IF StatusAfter(outcome) = "running"
                         /\ mainStage = Len(main_stages(mainKind))
                      THEN "exit0" ELSE StatusAfter(outcome))
    /\ UNCHANGED <<mainKind, mainStage>>

\* main is about to make its first call.  The inputs of create_initramfs are
\* those main of sub.py passes on.
MainInit ==
    /\ mainKind \in {"sub", "test"}
    /\ mainStage = 0
    /\ mainPhase = "between"
    /\ mainStatus = "running"
    /\ mainLog = << >>
    /\ hostMounts = {}
    /\ madeMounts = {}
    /\ imgKind = "ext4"
    /\ euidRoot \in BOOLEAN
    /\ srcIsDir = TRUE
    /\ srcFiles = {}
    /\ pc = "idle"
    /\ ImgFresh
    /\ IF mainKind = "sub"
       THEN /\ ramEuidRoot = euidRoot
            /\ busyboxExists \in BOOLEAN
            /\ crossRootParts = << <<"opt">>, <<"cross">> >>
            /\ libLinks = << >>
            /\ ramPc = "waiting"
            /\ temp_initramfs_staging_dir = "None"
            /\ stagingExists = FALSE
            /\ staged = {}
            /\ stagedLibs = << >>
            /\ archive = "none"
            /\ ramExc = "none"
            /\ ramLog = << >>
            /\ ramRmtreeAttempted = FALSE
            /\ ramWarned = FALSE
            /\ cross_prefix = <<"aarch64-linux-gnu", "-">>
            /\ cross_compiler_root \in {"None", "sysroot"}
            /\ sysFiles = SysrootFiles(cross_prefix)
            /\ readelfOutcome \in CmdOutcomes
            /\ readelfStdout = ReadelfStdout({ <<"libc.so.6">> })
            /\ needed_libs = {}
            /\ search_paths = << >>
            /\ libResult = << >>
            /\ libWarned = << >>
            /\ libPc = "waiting"
       ELSE RamIdle /\ LibsIdle

\* main is not under study
MainIdle ==
    /\ mainKind = "sub"
    /\ mainStage = 0
    /\ mainPhase = "idle"
    /\ mainStatus = "idle"
    /\ mainLog = << >>
    /\ hostMounts = {}
    /\ madeMounts = {}

\* main calls its next stage: the previous call has returned
MainStartStage ==
    /\ mainStatus = "running"
    /\ mainPhase = "between"
    /\ mainStage < Len(main_stages(mainKind))
    /\ LET next == main_stages(mainKind)[mainStage + 1]
       IN  /\ mainStage' = mainStage + 1
           /\ mainLog' = Append(mainLog, <<next, "start">>)
           /\ mainPhase' = "in"
           /\ IF next \in Packagers
              THEN /\ imgKind' = PackagerKind(mainKind, next)
                   /\ srcIsDir' \in (IF next = "create_rootfs_ext4_image" THEN {TRUE} ELSE BOOLEAN)
                   /\ srcFiles' \in { {}, SourceFiles }
                   /\ pc' = "start"
                   /\ temp_mount_point' = "None"
                   /\ tmpDirExists' = FALSE
                   /\ mounted' = FALSE
                   /\ imageState' = "absent"
                   /\ copied' = FALSE
                   /\ bootFiles' = {}
                   /\ pendingExc' = "none"
                   /\ failedStep' = "none"
                   /\ fallocateOutcome' = "none"
                   /\ ddRan' = FALSE
                   /\ umountOutcome' = "none"
                   /\ rmtreeAttempted' = FALSE
                   /\ warnings' = {}
                   /\ cmdLog' = << >>
                   /\ imageFiles' = << >>
                   /\ UNCHANGED <<euidRoot, ramVars>>
              ELSE /\ ramPc' = (IF next = "create_initramfs" THEN "start" ELSE ramPc)
                   /\ UNCHANGED <<imgVars, ramEuidRoot, busyboxExists, temp_initramfs_staging_dir,
                                  stagingExists, staged, stagedLibs, archive, ramExc, ramLog,
                                  ramRmtreeAttempted, ramWarned>>
    /\ UNCHANGED <<mainKind, mainStatus, hostMounts, madeMounts, shVars, linkVars, symlinks,
                   libsVars, permVars, patchVars, dirsVars>>

\* a stage other than the packagers and create_initramfs runs and ends
MainRunStage ==
    /\ mainStatus = "running"
    /\ mainPhase = "in"
    /\ CurrentStage \notin Packagers \cup {"create_initramfs"}
    /\ \E o \in StageOutcomes(CurrentStage) : MainStageEnds(o)
    /\ UNCHANGED <<hostMounts, madeMounts, shVars, linkVars, symlinks,
                   ramVars, libsVars, permVars, patchVars, imgVars, dirsVars>>

\* a packager has returned or has ended the process; a mount it did not undo
\* stays on the host
MainPackagerEnds ==
    /\ mainStatus = "running"
    /\ mainPhase = "in"
    /\ CurrentStage \in Packagers
    /\ pc \in {"returned", "exited"}
    /\ MainStageEnds(pc)
    /\ hostMounts' = (IF mounted THEN hostMounts \cup {CurrentStage} ELSE hostMounts)
    /\ madeMounts' = (IF \E i \in DOMAIN cmdLog : cmdLog[i] = <<"mount", "ok">>
                      THEN madeMounts \cup {CurrentStage} ELSE madeMounts)
    /\ UNCHANGED <<shVars, linkVars, symlinks, ramVars, libsVars, permVars, patchVars, imgVars,
                   dirsVars>>

\* create_initramfs has returned or has ended the process
MainInitramfsEnds ==
    /\ mainStatus = "running"
    /\ mainPhase = "in"
    /\ CurrentStage = "create_initramfs"
    /\ ramPc \in {"returned", "exited"}
    /\ MainStageEnds(ramPc)
    /\ UNCHANGED <<hostMounts, madeMounts, shVars, linkVars, symlinks,
                   ramVars, libsVars, permVars, patchVars, imgVars, dirsVars>>

-----------------------------------------------------------------------------
(* ---------------- specifications --------------------------------------- *)

InitPatch == PatchInit /\ ImgIdle /\ DirsIdle /\ PermIdle /\ LibsIdle /\ RamIdle /\ ShIdle /\ MainIdle

NextPatch == Patch

SpecPatch == InitPatch /\ [][NextPatch]_vars

InitImage == ImgInit /\ PatchIdle /\ DirsIdle /\ PermIdle /\ LibsIdle /\ RamIdle /\ ShIdle /\ MainIdle

NextImage ==
    \/ ImgStart
    \/ GitFetch
    \/ Mkdtemp
    \/ Allocate
    \/ Mkfs
    \/ Mount
    \/ Rsync
    \/ WriteCmdline
    \/ WriteConfigTxt
    \/ Umount
    \/ Rmtree

SpecImage == InitImage /\ [][NextImage]_vars

InitImageAll == ImgInitAll /\ PatchIdle /\ DirsIdle /\ PermIdle /\ LibsIdle /\ RamIdle /\ ShIdle /\ MainIdle

SpecImageAll == InitImageAll /\ [][NextImage]_vars

InitDirs == DirsInit /\ PatchIdle /\ ImgIdle /\ PermIdle /\ LibsIdle /\ RamIdle /\ ShIdle /\ MainIdle

NextDirs == CreateDirs

SpecDirs == InitDirs /\ [][NextDirs]_vars

\* the process of main between create_dirs and the image steps: the umask is
\* the one the build was started with
DirsDone ==
    /\ umask \in Umasks
    /\ fs = << >>
    /\ prevFs = << >>
    /\ dirsStatus = "none"
    /\ dirsRuns = 0

InitDev == DevInit /\ PatchIdle /\ ImgIdle /\ DirsDone /\ LibsIdle /\ RamIdle /\ ShIdle /\ MainIdle

NextDev == CreateDeviceNodes

SpecDev == InitDev /\ [][NextDev]_vars

InitPerm == PermInit /\ PatchIdle /\ ImgIdle /\ DirsDone /\ LibsIdle /\ RamIdle /\ ShIdle /\ MainIdle

NextPerm ==
    \/ CreateDeviceNodes
    \/ PermDirPass
    \/ PermFilePass
    \/ PermSpecialPass

SpecPerm == InitPerm /\ [][NextPerm]_vars

InitPermLinks == PermLinkInit /\ PatchIdle /\ ImgIdle /\ DirsDone /\ LibsIdle /\ RamIdle /\ ShIdle /\ MainIdle

NextPermLinks ==
    \/ PermDirPass
    \/ PermFilePassAnyOrder
    \/ PermSpecialPass

SpecPermLinks == InitPermLinks /\ [][NextPermLinks]_vars

InitLibs == LibsInit /\ PatchIdle /\ ImgIdle /\ DirsIdle /\ PermIdle /\ RamIdle /\ ShIdle /\ MainIdle

NextLibs ==
    \/ RunReadelf
    \/ BuildSearchPaths
    \/ ResolveLibraries

SpecLibs == InitLibs /\ [][NextLibs]_vars

InitInitramfs == RamInit /\ PatchIdle /\ ImgIdle /\ DirsIdle /\ PermIdle /\ ShIdle /\ MainIdle

NextInitramfs ==
    \/ RamStart
    \/ RamMkdtemp
    \/ RamStageBusybox
    \/ RamInstallLinks
    \/ RamCallResolver
    \/ RunReadelf
    \/ BuildSearchPaths
    \/ ResolveLibraries
    \/ RamCopyLibs
    \/ RamWriteInit
    \/ RamMknod
    \/ RamArchive
    \/ RamCleanup

SpecInitramfs == InitInitramfs /\ [][NextInitramfs]_vars

InitScript == ShInit /\ PatchIdle /\ ImgIdle /\ DirsIdle /\ PermIdle /\ LibsIdle /\ RamIdle /\ MainIdle

NextScript ==
    \/ ShRun
    \/ ShIf
    \/ ShJump
    \/ ShExec

SpecScript == InitScript /\ [][NextScript]_vars

\* create_initramfs never returns, so main of sub.py does not get to
\* create_bootfs_vfat_image, and the copy of it in test.py writes no files:
\* the two write steps are no steps of a run of main
InitMain == MainInit /\ PatchIdle /\ DirsIdle /\ PermIdle /\ ShIdle

NextMain ==
    \/ MainStartStage
    \/ MainRunStage
    \/ MainPackagerEnds
    \/ MainInitramfsEnds
    \/ ImgStart
    \/ GitFetch
    \/ Mkdtemp
    \/ Allocate
    \/ Mkfs
    \/ Mount
    \/ Rsync
    \/ Umount
    \/ Rmtree
    \/ RamStart
    \/ RamMkdtemp
    \/ RamStageBusybox
    \/ RamInstallLinks
    \/ RamCallResolver
    \/ RunReadelf
    \/ BuildSearchPaths
    \/ ResolveLibraries
    \/ RamCopyLibs
    \/ RamWriteInit
    \/ RamMknod
    \/ RamArchive
    \/ RamCleanup

SpecMain == InitMain /\ [][NextMain]_vars

-----------------------------------------------------------------------------
(* ---------------- properties of the patch step ------------------------- *)

\* a line as read by readlines(), without its terminating newline
LineBody(line) ==
    IF line # <<>> /\ line[Len(line)] = "\n" THEN SubSeq(line, 1, Len(line) - 1) ELSE line

\* the enabled forms CONFIG_<F upper-cased>=y and CONFIG_<F upper-cased>=m
EnabledForms(feature) ==
    { feature_pattern(feature) \o <<"y">>, feature_pattern(feature) \o <<"m">> }

RequestedIdx == 1..Len(disabled_features)

EnabledOfRequested(line) ==
    \E j \in RequestedIdx : Strip(line) \in EnabledForms(disabled_features[j])

\* C1: applying the patch step a second time with the same disabled_features
\* leaves the file exactly as the first application left it.
C1_PatchIdempotent == patchCount >= 2 => configFile = prevConfig

\* C6: after the patch step no line of the file equals CONFIG_<F>=y or
\* CONFIG_<F>=m for any feature F of disabled_features.
C6_NoEnabledLineRemains ==
    patchCount >= 1 =>
        \A i \in 1..Len(configFile) : \A j \in RequestedIdx :
            LineBody(configFile[i]) \notin EnabledForms(disabled_features[j])

C6_Witness ==
    /\ patchCount = 1
    /\ \E i \in 1..Len(prevConfig) : \E j \in RequestedIdx :
            LineBody(prevConfig[i]) \in EnabledForms(disabled_features[j])

\* C7: every input line CONFIG_<F>=y / CONFIG_<F>=m of a requested feature is
\* replaced, at the same position, by the line "# CONFIG_<F> is not set".
C7_ReplacedByDisabledForm ==
    patchCount >= 1 =>
        \A i \in 1..Len(prevConfig) : \A j \in RequestedIdx :
            LineBody(prevConfig[i]) \in EnabledForms(disabled_features[j]) =>
                /\ i <= Len(configFile)
                /\ LineBody(configFile[i]) = DisabledForm(Upper(disabled_features[j]))

\* C8: the patch step keeps the number of lines, and every line that is not
\* an enabled line of a requested feature stays identical at its position.
C8_OtherLinesUntouched ==
    patchCount >= 1 =>
        /\ Len(configFile) = Len(prevConfig)
        /\ \A i \in 1..Len(prevConfig) :
                ~EnabledOfRequested(prevConfig[i]) => configFile[i] = prevConfig[i]

-----------------------------------------------------------------------------
(* ---------------- properties of the image packagers -------------------- *)

\* the call has returned or the process has exited
Finished == pc \in {"returned", "exited"}

UmountFailed == umountOutcome \in {"nonzero", "notfound"}

C3_UnmountBeforeRemove == [][(rmtreeAttempted' /\ ~rmtreeAttempted) => ~mounted]_vars

C3_Witness ==
    /\ rmtreeAttempted
    /\ umountOutcome = "ok"
    /\ imageState = "formatted"
    /\ ~mounted

\* C4: a failing unmount is only a warning: the removal of the directory is
\* still attempted, and the unmount failure alone does not end the process.
C4_UmountFailureOnlyWarns ==
    (Finished /\ UmountFailed) =>
        /\ "umount" \in warnings
        /\ rmtreeAttempted
        /\ (failedStep = "none" => pc = "returned")

\* C5: when fallocate exits non-zero or is not found, dd is invoked instead
\* and the failure of fallocate does not abort the packager.
C5_DdFallback ==
    fallocateOutcome \in {"nonzero", "notfound"} => (ddRan /\ failedStep # "fallocate")

-----------------------------------------------------------------------------
(* ---------------- properties of create_dirs ---------------------------- *)

ModeOf(f, rel) == f[rootfs_dir \o rel].mode

overrideDirs == { rootfs_dir \o dirOverrides[i][1] : i \in 1..Len(dirOverrides) }

\* C9: from any output root create_dirs completes without error; afterwards
\* the root and every path of rootfs_dirs exist, tmp and var/tmp have mode
\* 01777 and var/log and var/run have mode 0777.
C9_CreateDirsBuildsScaffold ==
    dirsRuns >= 1 =>
        /\ dirsStatus = "ok"
        /\ IsDir(fs, rootfs_dir)
        /\ \A i \in 1..Len(rootfs_dirs) : IsDir(fs, rootfs_dir \o rootfs_dirs[i])
        /\ IsDir(fs, rootfs_dir \o <<"tmp">>)
        /\ ModeOf(fs, <<"tmp">>) = 1023
        /\ ModeOf(fs, <<"var", "tmp">>) = 1023
        /\ ModeOf(fs, <<"var", "log">>) = 511
        /\ ModeOf(fs, <<"var", "run">>) = 511

\* C10: a second run of create_dirs raises no error, creates or removes
\* nothing, and leaves every entry outside the four override directories as
\* it was.
C10_CreateDirsIdempotent ==
    dirsRuns >= 2 =>
        /\ dirsStatus = "ok"
        /\ DOMAIN fs = DOMAIN prevFs
        /\ \A q \in DOMAIN prevFs \ overrideDirs : fs[q] = prevFs[q]

-----------------------------------------------------------------------------
(* ---------------- device nodes and permissions -------------------------- *)

\* set_rootfs_permissions has returned
PermReturned == permPc = "returned"

\* create_device_nodes has returned
DevReturned == permPc # "devnodes" /\ permPc # "idle"

DevPath(name) == Append(dev_dir, name)

\* the device nodes this run of create_device_nodes created
CreatedNodes == { DevPath(n) : n \in DeviceNames } \cap (DOMAIN tree \ DOMAIN treeBefore)

RegularFiles == { p \in DOMAIN tree : tree[p].kind = "file" }

Directories == { p \in DOMAIN tree : tree[p].kind = "dir" }

\* the file lies directly in a directory named bin or sbin
InBinDir(p) == ParentName(p) \in {"bin", "sbin"}

\* C11: after create_device_nodes and then set_rootfs_permissions, every
\* character device node that was created under dev has permission bits 0666
C11_CreatedNodesHave0666 ==
    PermReturned => \A p \in CreatedNodes : tree[p].mode = 438

IsInitScript(p) ==
    \/ (Name(p) = "init" /\ Len(p) = 1)
    \/ (Name(p) = "rcS" /\ ParentName(p) = "init.d")

C13_ShebangFilesExecutable ==
    (PermReturned /\ permWarned = {}) =>
        \A p \in RegularFiles : StartsWithShebang(tree[p].content) => tree[p].mode = 493

\* the mode a directory is to end with
DirRuleMode(d) ==
    IF d \in { <<"tmp">>, <<"var", "tmp">> } THEN 1023
    ELSE IF d \in { <<"var", "log">>, <<"var", "run">>, <<"var", "lock">> } THEN 511
    ELSE 493

SixSpecialDirs ==
    { <<"tmp">>, <<"var", "tmp">>, <<"var", "log">>, <<"var", "run">>, <<"var", "lock">>,
      <<"dev">> }

\* C14: with no chmod failing and whatever the modes were before, tmp and
\* var/tmp end with 01777, var/log, var/run and var/lock with 0777, dev, the
\* tree root and every other directory with 0755; and the general directory
\* pass never changes the mode of one of the six special directories
C14_SpecialDirectoryModes ==
    /\ []((PermReturned /\ permWarned = {}) =>
            \A d \in Directories : tree[d].mode = DirRuleMode(d))
    /\ [][permPc = "dirpass" =>
            \A d \in SixSpecialDirs \cap DOMAIN tree : tree'[d].mode = tree[d].mode]_vars

\* all six special directories exist, none had its final mode before, and a
\* directory named tmp elsewhere got the general mode
C14_Witness ==
    /\ PermReturned /\ permWarned = {}
    /\ SixSpecialDirs \subseteq Directories
    /\ \A d \in SixSpecialDirs \cup { << >> } : treeBefore[d].mode = 448
    /\ tree[<<"tmp">>].mode = 1023
    /\ tree[<<"var", "lock">>].mode = 511
    /\ tree[<<"opt", "tmp">>].mode = 493

\* C19: whatever set of nodes fails to be created, os.mknod is still called
\* for every other absent node and the node exists afterwards, an already
\* present node is neither created again nor changed, and the function returns
C19_NodeFailuresAreIsolated ==
    DevReturned =>
        \A n \in DeviceNames :
            IF DevPath(n) \in DOMAIN treeBefore
            THEN n \notin mknodAttempted /\ tree[DevPath(n)] = treeBefore[DevPath(n)]
            ELSE /\ n \in mknodAttempted
                 /\ (~MknodFails(treeBefore, n, mknodFail)) =>
                       (DevPath(n) \in DOMAIN tree /\ tree[DevPath(n)].kind = "chr")

\* two nodes fail, one was present and keeps its mode, a later one is created
C19_Witness ==
    /\ DevReturned
    /\ mknodFail = {"console", "zero"}
    /\ devWarned = {"console", "zero"}
    /\ <<"dev", "null">> \in DOMAIN treeBefore
    /\ tree[<<"dev", "null">>].mode = 384
    /\ <<"dev", "tty1">> \in CreatedNodes

\* the mode the rules of set_rootfs_permissions prescribe for a path
RuleMode(p) == IF tree[p].kind = "dir" THEN DirRuleMode(p) ELSE FileMode(tree, p)

\* C20: whatever set of directories and files os.chmod or read_bytes fails
\* on, every other directory and file ends with the mode its rule
\* prescribes, and the function returns
C20_ChmodFailuresAreIsolated ==
    PermReturned => \A p \in DOMAIN tree \ permFail : tree[p].mode = RuleMode(p)

\* a directory and a file failed and kept their modes, the others were changed
C20_Witness ==
    /\ PermReturned
    /\ permWarned = { <<"opt">>, <<"etc", "hostname">> }
    /\ tree[<<"opt">>].mode = 448
    /\ tree[<<"etc", "hostname">>].mode = 384
    /\ \A p \in DOMAIN treeBefore \ permFail : tree[p].mode # treeBefore[p].mode

-----------------------------------------------------------------------------
(* ---------------- find_dynamic_libraries -------------------------------- *)

\* the indices of the candidate directories that contain the soname
CandidatesWith(s) ==
    { i \in DOMAIN search_paths : Append(search_paths[i], s) \in SysPaths(sysFiles) }

Least(S) == CHOOSE i \in S : \A j \in S : i <= j

\* the search loop has run and the function has returned
Resolved == libPc = "returned" /\ search_paths # << >>

\* C15: the paths returned are exactly, for every needed soname found in some
\* candidate directory, the first such directory of the ordered candidate list
\* joined with the soname; every soname found in none is warned about once; no
\* path is returned twice
C15_FirstCandidateWins ==
    Resolved =>
        /\ { libResult[i] : i \in DOMAIN libResult }
             = { Append(search_paths[Least(CandidatesWith(s))], s) :
                   s \in { n \in needed_libs : CandidatesWith(n) # {} } }
        /\ \A i, j \in DOMAIN libResult : i # j => libResult[i] # libResult[j]
        /\ \A s \in needed_libs :
             Cardinality({ i \in DOMAIN libWarned : libWarned[i] = s })
               = (IF CandidatesWith(s) = {} THEN 1 ELSE 0)
        /\ \A i \in DOMAIN libWarned : libWarned[i] \in needed_libs

\* one soname lies in two candidate directories, one of them found through
\* the glob fallback, another soname lies in none
C15_Witness ==
    /\ Resolved
    /\ Cardinality(CandidatesWith(<<"libc.so.6">>)) >= 2
    /\ Len(search_paths) > 6
    /\ <<"libm.so.6">> \in needed_libs /\ CandidatesWith(<<"libm.so.6">>) # {}
    /\ libWarned = << <<"libresolv.so.2">> >>
    /\ Len(libResult) = 2

\* the resolver is past the point at which the condition is detected
PastReadelf == libPc \notin {"readelf", "idle"}

PastRootCheck == libPc \notin {"readelf", "paths", "idle"}

\* C16: when readelf is missing or exits non-zero, or cross_compiler_root is
\* not configured, the resolver returns, and returns the empty list; it does
\* not end the process
C16_ResolverDegradesToEmpty ==
    /\ (PastReadelf /\ readelfOutcome # "ok") => (libPc = "returned" /\ libResult = << >>)
    /\ (PastRootCheck /\ cross_compiler_root = "None") => (libPc = "returned" /\ libResult = << >>)
    /\ libPc # "exited"

\* readelf was not found although the sysroot holds the libraries
C16_Witness ==
    /\ libPc = "returned"
    /\ readelfOutcome = "notfound"
    /\ sysFiles # {}
    /\ libResult = << >>

-----------------------------------------------------------------------------
(* ---------------- create_initramfs -------------------------------------- *)

\* create_initramfs has returned or has ended the process
RamFinished == ramPc \in {"returned", "exited"}

\* every command run so far exited with status 0 and no file operation failed
RamAllOk == \A i \in DOMAIN ramLog : ramLog[i][2] = "ok"

\* C17: when busybox --install, readelf, find, cpio and gzip all exit with
\* status 0 and no file operation fails, create_initramfs writes the archive,
\* compresses it, moves it to the output path and returns normally
C17_ArchiveDelivered ==
    (RamFinished /\ ramEuidRoot /\ busyboxExists /\ readelfOutcome = "ok" /\ RamAllOk)
        => (ramPc = "returned" /\ archive = "moved")

\* C18: on every exit path after the staging directory was created, removal of
\* the staging directory is attempted, and if the removal succeeds the
\* directory no longer exists
C18_StagingRemovedOnEveryExit ==
    (RamFinished /\ temp_initramfs_staging_dir # "None") =>
        /\ ramRmtreeAttempted
        /\ (~ramWarned => ~stagingExists)

\* the process exit requested inside the try block for a missing busybox
\* binary, with the staging directory removed
C18_Witness ==
    /\ ramPc = "exited"
    /\ ~busyboxExists
    /\ temp_initramfs_staging_dir # "None"
    /\ ramExc = "SystemExit"
    /\ ramRmtreeAttempted /\ ~stagingExists

-----------------------------------------------------------------------------
(* ---------------- image packagers: privileges, order, outcome ----------- *)

\* C21: without root privileges both packagers end the process before the
\* temporary mount point or the image file is created and before any external
\* tool is invoked
C21_NonRootExitsFirst ==
    (~euidRoot /\ pc \notin {"start", "idle"}) =>
        /\ pc = "exited"
        /\ temp_mount_point = "None" /\ ~tmpDirExists
        /\ imageState = "absent"
        /\ cmdLog = << >>

\* the boot image packager, started without root privileges, has exited
C21_Witness ==
    /\ ~euidRoot
    /\ imgKind = "vfat"
    /\ pc = "exited"
    /\ failedStep = "euid"

IsBootPackager(kind) == kind \in {"vfat", "vfat_test"}

GeneratedFiles == { f \in DOMAIN imageFiles : imageFiles[f] = "generated" }

\* C22: whenever the boot image packager returns normally, cmdline.txt and
\* config.txt with the generated content are in the image; they are written
\* only after the copy succeeded and while the image is mounted, so a file of
\* the same name in the firmware tree is replaced
C22_BootFilesInImage ==
    /\ []((IsBootPackager(imgKind) /\ pc = "returned") =>
            GeneratedFiles = {"cmdline.txt", "config.txt"})
    /\ [][(imageFiles' # imageFiles /\ pc # "rsync") => (copied /\ mounted /\ mounted')]_vars

\* the steps of the try block that invoke an external tool, in program order
PackagerSteps == <<"fallocate", "mkfs", "mount", "rsync">>

\* C26: a packager returns normally only if allocation, formatting, mounting
\* and copying all succeeded, and an error in its try block ends the process
C26_SuccessOnlyIfAllSucceeded ==
    /\ (pc = "returned") =>
          /\ failedStep = "none"
          /\ imageState = "formatted"
          /\ copied
          /\ \A k \in DOMAIN PackagerSteps :
               \E i \in DOMAIN cmdLog : cmdLog[i] = <<PackagerSteps[k], "ok">>
    /\ (Finished /\ failedStep \notin {"none", "euid"}) => pc = "exited"

\* C27: the steps run in the order allocate, format, mount, copy, each only
\* directly after the one before it succeeded, and after a failed step only
\* the unmount of the cleanup is run
C27_StepsInOrder ==
    /\ \A i \in DOMAIN cmdLog :
         /\ \A k \in 2..Len(PackagerSteps) :
              cmdLog[i][1] = PackagerSteps[k] =>
                  (i > 1 /\ cmdLog[i - 1] = <<PackagerSteps[k - 1], "ok">>)
         /\ cmdLog[i][1] = "fallocate" => (i = 1 \/ cmdLog[i - 1] = <<"git", "ok">>)
         /\ cmdLog[i][1] = "dd" => (i > 1 /\ cmdLog[i - 1][1] = "fallocate")
         /\ cmdLog[i][2] # "ok" => \A j \in (i + 1)..Len(cmdLog) : cmdLog[j][1] = "umount"
    /\ mounted => imageState = "formatted"
    /\ copied => imageState = "formatted"

\* the copy failed after three successful steps and only the unmount followed
C27_Witness ==
    /\ Finished
    /\ Len(cmdLog) = 5
    /\ cmdLog[1] = <<"fallocate", "ok">>
    /\ cmdLog[3] = <<"mount", "ok">>
    /\ cmdLog[4] = <<"rsync", "nonzero">>
    /\ cmdLog[5][1] = "umount"

-----------------------------------------------------------------------------
(* ---------------- the init script of the initramfs ---------------------- *)

TraceCmds(cmd) == { i \in DOMAIN shTrace : shTrace[i][1] = cmd }

RootMount == "mount /dev/mmcblk0p2 /mnt"

SwitchRoot == "switch_root /mnt /sbin/init"

\* the mount of the root device was run and failed
RootMountFailed == \E i \in TraceCmds(RootMount) : shTrace[i][2] # 0

RootMountSucceeded == \E i \in TraceCmds(RootMount) : shTrace[i][2] = 0

\* C25: when the mount of the root device on /mnt fails the script starts a
\* shell and never runs switch_root; when it succeeds the script execs
\* switch_root and no shell was started before that
C25_ShellOnlyWhenMountFails ==
    /\ RootMountFailed =>
         /\ TraceCmds(SwitchRoot) = {}
         /\ (shPc > 10 \/ shState # "running") => TraceCmds("/bin/sh") # {}
    /\ RootMountSucceeded =>
         /\ (shPc > 13 \/ shState # "running") => TraceCmds(SwitchRoot) # {}
         /\ \A i \in TraceCmds("/bin/sh") : \E j \in TraceCmds(SwitchRoot) : j < i

\* the two cases: the shell was replaced by switch_root without a shell
\* before it; the mount failed and the script has ended after its shells
C25_Witness ==
    \/ /\ shState = "replaced"
       /\ RootMountSucceeded
       /\ TraceCmds("/bin/sh") = {}
       /\ shTrace[1] = <<"mount proc", 1>>
    \/ /\ shState = "exited"
       /\ RootMountFailed
       /\ Cardinality(TraceCmds("/bin/sh")) = 2

-----------------------------------------------------------------------------
(* ---------------- the staging tree of the initramfs -------------------- *)

\* the library loop of create_initramfs has run to its end
LibsCopied == \E i \in DOMAIN ramLog : ramLog[i] = <<"copy libraries", "ok">>

\* the entries of lib and lib64 that carry the file name of a library path
DirectEntries(rel) ==
    { q \in DOMAIN stagedLibs :
        /\ Len(q) = 2
        /\ q[1] \in { <<"lib">>, <<"lib64">> }
        /\ q[2] = rel[Len(rel)] }

\* C29: after the library loop every path the resolver returned has an entry
\* directly in lib or lib64 of the staging tree, and the entry of a path that
\* is a symlink is a symlink with the target of that path
C29_LibrariesDirectlyInLib ==
    LibsCopied =>
        \A i \in DOMAIN libResult :
            /\ DirectEntries(libResult[i]) # {}
            /\ libResult[i] \in DOMAIN libLinks =>
                  \A q \in DirectEntries(libResult[i]) :
                      stagedLibs[q] = SymlinkNode(libLinks[libResult[i]])

\* the part of C29 that holds: wherever the loop put the library, the entry
\* of a symlink is a symlink with the same target
C29_SymlinkKept ==
    LibsCopied =>
        \A i \in DOMAIN libResult :
            \E q \in DOMAIN stagedLibs :
                /\ q[Len(q)] = libResult[i][Len(libResult[i])]
                /\ stagedLibs[q] = (IF libResult[i] \in DOMAIN libLinks
                                    THEN SymlinkNode(libLinks[libResult[i]]) ELSE FileNode)

\* C28: an OSError of os.mknod in the device loop of create_initramfs is a
\* warning only, the function goes on to the archive
C28_MknodFailureIsWarning ==
    [][(ramPc = "mknod" /\ ramLog' = Append(ramLog, <<"mknod", "oserror">>))
         => (ramPc' = "archive" /\ ramExc' = "none")]_vars

-----------------------------------------------------------------------------
(* ---------------- file modes and symlinks ------------------------------ *)

\* C30: after the file pass the mode of a regular file whose chmod did not
\* fail is the mode its own directory, name and content call for, whatever
\* the order of the walk and whatever symlinks point at the file
C30_ModeFromOwnEntry ==
    permPc \in {"special", "returned"} =>
        \A f \in DOMAIN tree :
            (tree[f].kind = "file" /\ f \notin permFail) => tree[f].mode = FileMode(tree, f)

-----------------------------------------------------------------------------
(* ---------------- main -------------------------------------------------- *)

\* C23: in main of sub.py the log of calls and returns follows the list of
\* stages: the k-th call is the k-th stage, a call is made only after the
\* return of the call before it, a stage that ends in sys.exit(1) or in an
\* uncaught exception is the last entry and the process has status 1; a
\* packager or create_initramfs that returned had no error in its try block
C23_StagesInOrder ==
    mainKind = "sub" /\ mainStatus # "idle" =>
        /\ \A i \in DOMAIN mainLog :
              /\ mainLog[i][1] = main_stages(mainKind)[(i + 1) \div 2]
              /\ (i % 2 = 1) <=> (mainLog[i][2] = "start")
              /\ (i % 2 = 1 /\ i > 1) => mainLog[i - 1][2] = "returned"
              /\ mainLog[i][2] \in {"exited", "raised"} =>
                    (i = Len(mainLog) /\ mainStatus = "exit1")
        /\ mainStatus = "exit1" => mainLog[Len(mainLog)][2] \in {"exited", "raised"}
        /\ (pc = "returned" => (failedStep = "none" /\ pendingExc = "none"))
        /\ (ramPc = "returned" => ramExc = "none")
        /\ (pc \notin {"idle", "returned", "exited"} =>
              (mainPhase = "in" /\ CurrentStage \in Packagers))
        /\ (ramPc \notin {"waiting", "returned", "exited"} =>
              (mainPhase = "in" /\ CurrentStage = "create_initramfs"))

\* eight stages of main of sub.py have returned in order, the ninth has
\* ended the process and the tenth was not called
C23_Witness ==
    /\ mainKind = "sub"
    /\ mainStatus = "exit1"
    /\ Len(mainLog) = 18
    /\ mainLog[Len(mainLog)] = <<"create_initramfs", "exited">>

\* the images mounted on the host: those earlier stages left mounted and the
\* one the running packager has mounted
MountedImages == hostMounts \cup (IF mounted /\ mainPhase = "in" THEN {CurrentStage} ELSE {})

\* C24: at every point of a run of main at most one image is mounted, and
\* while the boot packager has its image mounted no mount of the root file
\* system packager is left
C24_OneMountAtATime ==
    mainStatus # "idle" =>
        /\ Cardinality(MountedImages) <= 1
        /\ (CurrentStage = "create_bootfs_vfat_image" /\ mounted) =>
              "create_rootfs_ext4_image" \notin hostMounts

\* the boot packager has its image mounted in a run in which the root file
\* system packager had mounted its image before
C24_Witness ==
    /\ CurrentStage = "create_bootfs_vfat_image"
    /\ mainPhase = "in"
    /\ mounted
    /\ "create_rootfs_ext4_image" \in madeMounts

====
